---------------------------- MODULE Spec2Model ----------------------------
(***************************************************************************)
(* A model of build.mjs, the KJV verse-per-page static site builder.       *)
(*                                                                         *)
(* JavaScript values are tagged records:                                   *)
(*   [t |-> "undefined"]  [t |-> "null"]  [t |-> "NaN"]                    *)
(*   [t |-> "num", n |-> 3]         a finite number (integers here)        *)
(*   [t |-> "str", s |-> "A"]       a string                               *)
(*   [t |-> "arr", a |-> <<..>>]    an array                               *)
(*   [t |-> "obj", o |-> <<<<k, v>>, ..>>]  an object, its own properties  *)
(*                                  in insertion order, keys distinct      *)
(* Book names and slugs are sequences of one-character strings, so that    *)
(* slugify can be computed character by character.                         *)
(***************************************************************************)
EXTENDS Integers, Sequences, FiniteSets, TLC

VARIABLES
    pc,        \* main(): "resolve", "load", "helpers", "verses", "done", or
               \* "failed" (process.exit(1))
    indexList, \* main(): a row { name, slug } per name of Books.json, in order
    booksMap,  \* main(): slug -> normalized book (a Map: set() overwrites)
    countsMap, \* main(): slug -> (chapter key -> count), shipped to every page
    loaded,    \* main(): number of rows the preload loop has handled
    pos,       \* main(): the loop variables of the verse loops
    pages,     \* main(): the verse pages written so far, in emission order
    out,       \* main(): the other files written so far, in the order written
    resolver,  \* findBaseAndBooksJson(): its position and its local variables
    call,      \* a pure function under test: "idle", or its name
    arg,       \* the arguments the pure function is applied to
    res        \* its result, [t |-> "pending"] before the call

vars ==
    <<pc, indexList, booksMap, countsMap, loaded, pos, pages, out, resolver, call, arg, res>>

-----------------------------------------------------------------------------
(* JavaScript values *)

Undefined == [t |-> "undefined"]
JNull == [t |-> "null"]
NaN == [t |-> "NaN"]
Num(n) == [t |-> "num", n |-> n]
Str(s) == [t |-> "str", s |-> s]
Arr(a) == [t |-> "arr", a |-> a]
Obj(o) == [t |-> "obj", o |-> o]

\* The decimal digits, the digit d at place d + 1.
DecDigits == <<"0", "1", "2", "3", "4", "5", "6", "7", "8", "9">>

\* The hexadecimal digits after 9, in both cases, the digit of value 9 + i
\* at place i.
HexLower == <<"a", "b", "c", "d", "e", "f">>
HexUpper == <<"A", "B", "C", "D", "E", "F">>

\* The i-th character of the string s, as a string.
Char(s, i) == SubSeq(s, i, i)

\* The value of the digit c in a base up to 16, or 16 if c is no digit.
DigitVal(c) ==
    IF \E d \in 1..10 : DecDigits[d] = c THEN (CHOOSE d \in 1..10 : DecDigits[d] = c) - 1
    ELSE IF \E d \in 1..6 : HexLower[d] = c THEN 9 + (CHOOSE d \in 1..6 : HexLower[d] = c)
    ELSE IF \E d \in 1..6 : HexUpper[d] = c THEN 9 + (CHOOSE d \in 1..6 : HexUpper[d] = c)
    ELSE 16

\* Whether s is a sequence, possibly empty, of digits of the base.
IsDigits(s, base) == \A i \in 1..Len(s) : DigitVal(Char(s, i)) < base

\* String(n) of a non-negative integer n.
RECURSIVE DecStr(_)
DecStr(n) == IF n < 10 THEN DecDigits[n + 1] ELSE DecStr(n \div 10) \o DecDigits[(n % 10) + 1]

\* The value of a sequence of digits of the base, 0 for the empty sequence.
RECURSIVE DigitsVal(_, _)
DigitsVal(s, base) ==
    IF Len(s) = 0 THEN 0
    ELSE DigitsVal(SubSeq(s, 1, Len(s) - 1), base) * base + DigitVal(Char(s, Len(s)))

\* s without its leading zeros.
StripLeadingZeros(s) ==
    IF \A i \in 1..Len(s) : Char(s, i) = "0" THEN ""
    ELSE SubSeq(s, CHOOSE i \in 1..Len(s) :
                       Char(s, i) # "0" /\ \A j \in 1..(i - 1) : Char(s, j) = "0",
                Len(s))

\* The number of zeros s ends with.
TrailingZeros(s) ==
    IF \A i \in 1..Len(s) : Char(s, i) = "0" THEN Len(s)
    ELSE Len(s) - (CHOOSE i \in 1..Len(s) :
                      Char(s, i) # "0" /\ \A j \in (i + 1)..Len(s) : Char(s, j) = "0")

\* Whether the digit sequence a, as long as b, comes before b.
RECURSIVE LexLess(_, _)
LexLess(a, b) ==
    /\ Len(a) > 0
    /\ \/ DigitVal(Char(a, 1)) < DigitVal(Char(b, 1))
       \/ /\ Char(a, 1) = Char(b, 1)
          /\ LexLess(SubSeq(a, 2, Len(a)), SubSeq(b, 2, Len(b)))

\* Whether the property key s is an integer index: the canonical spelling of
\* an integer from 0 to 2^32 - 2.
IsDec(s) ==
    /\ Len(s) > 0
    /\ IsDigits(s, 10)
    /\ s = "0" \/ Char(s, 1) # "0"
    /\ \/ Len(s) < 10
       \/ Len(s) = 10 /\ (s = "4294967294" \/ LexLess(s, "4294967294"))

\* Whether the integer index a is less than the integer index b.
IndexLess(a, b) == Len(a) < Len(b) \/ (Len(a) = Len(b) /\ LexLess(a, b))

\* The result of a conversion to a number the model does not hold: the
\* numbers it holds are the integers from 0 up to nine decimal digits, and NaN.
NotHeld == [t |-> "not held"]

\* The characters the string-to-number conversion strips at both ends: tab,
\* line feed, vertical tab (U+000B), form feed, carriage return, space,
\* no-break space (U+00A0), ogham space mark (U+1680) and the byte order mark
\* (U+FEFF).  A string of the model holds the characters up to U+00FF and,
\* beyond them, the characters of the basic plane whose code ends in a byte
\* from 80 to FF; the other white space and line terminator characters of
\* the language (U+2000 to U+200A, U+2028, U+2029, U+202F, U+205F, U+3000)
\* are none of these.
StrWhiteSpace == {"\t", "\n", "", "\f", "\r", " ", " ", " ", "﻿"}

\* s without the white space at its ends.
TrimWhiteSpace(s) ==
    IF \A i \in 1..Len(s) : Char(s, i) \in StrWhiteSpace THEN ""
    ELSE LET first == CHOOSE i \in 1..Len(s) :
                         /\ Char(s, i) \notin StrWhiteSpace
                         /\ \A j \in 1..(i - 1) : Char(s, j) \in StrWhiteSpace
             last == CHOOSE i \in 1..Len(s) :
                         /\ Char(s, i) \notin StrWhiteSpace
                         /\ \A j \in (i + 1)..Len(s) : Char(s, j) \in StrWhiteSpace
         IN SubSeq(s, first, last)

\* The place of the first character of s that is in the set, Len(s) + 1 if
\* there is none.
FirstOf(s, set) ==
    IF \E i \in 1..Len(s) : Char(s, i) \in set
    THEN CHOOSE i \in 1..Len(s) :
            Char(s, i) \in set /\ \A j \in 1..(i - 1) : Char(s, j) \notin set
    ELSE Len(s) + 1

\* The digits of s as numbers.
DigitsOf(s) == [i \in 1..Len(s) |-> DigitVal(Char(s, i))]

\* The i-th digit after the point of 0.q, q a sequence of digits as numbers.
DigitAt(q, i) == IF i > Len(q) THEN 0 ELSE q[i]

\* The value of up to nine digits q.
RECURSIVE SeqVal(_)
SeqVal(q) == IF Len(q) = 0 THEN 0 ELSE SeqVal(SubSeq(q, 1, Len(q) - 1)) * 10 + q[Len(q)]

\* The Len(q) + k digits after the point of 0.q / 2^k, k from 1 to 9, by long
\* division: the remainder carried to the i-th digit is that of the k digits
\* before it, 10^k being a multiple of 2^k.
Halved(q, k) ==
    [i \in 1..(Len(q) + k) |->
        (10 * ((SeqVal(SubSeq(q, IF i > k THEN i - k ELSE 1,
                              IF i - 1 > Len(q) THEN Len(q) ELSE i - 1))
                * (10 ^ (IF i - 1 > Len(q) THEN i - 1 - Len(q) ELSE 0))) % (2 ^ k))
         + DigitAt(q, i)) \div (2 ^ k)]

\* The m digits after the point of 2^-m, m at least 1.
RECURSIVE TwoToMinus(_)
TwoToMinus(m) ==
    IF m = 1 THEN <<5>>
    ELSE IF m <= 10 THEN Halved(<<5>>, m - 1)
    ELSE Halved(TwoToMinus(m - 9), 9)

\* Whether 0.a <= 0.b, a and b sequences of digits as numbers.
FracLeq(a, b) ==
    \/ \A i \in 1..(Len(a) + Len(b)) : DigitAt(a, i) = DigitAt(b, i)
    \/ \E i \in 1..(Len(a) + Len(b)) :
          /\ DigitAt(a, i) < DigitAt(b, i)
          /\ \A j \in 1..(i - 1) : DigitAt(a, j) = DigitAt(b, j)

\* Half of the least double above 0, which is 2^-1074: the digits of 2^-1075
\* after the 323 zeros that follow the point, which are those of 5^1075.
HalfLeastDouble ==
    "2470328229206232720882843964341106861825299013071623822127928412"
    \o "5033775363510437593264991818081799618989828234772285886546332835"
    \o "5177969898199387398005390939063150356595155702263922908583924491"
    \o "0518443593180284993653615250031937045767824921936562366986365848"
    \o "0757001585769269903706311928279558551332927834338409351978015531"
    \o "2465972635795746227664652728272200563740064854999770965994704540"
    \o "2082816622623785739345073633900796776193057750674017632467360096"
    \o "8951340535537458516661134223766678604162159680461914467291840300"
    \o "5300575308490487653917113865916462395249126236538818796362393732"
    \o "8042389101867234849766823508986338858792562830275599565752445550"
    \o "7255189313690836254779186948667994968324049705821028513185451396"
    \o "213837722826145437693412532098591327667236328125"

\* The exponent of the greatest power of 2 that is at most n, n at least 1.
RECURSIVE Log2(_)
Log2(n) == IF n < 2 THEN 0 ELSE 1 + Log2(n \div 2)

\* The number i + 0.f the conversion gives, i below 10^9 and f a sequence of
\* digits ending with a digit other than 0, if it is an integer the model
\* holds.  A double from 2^k up to 2^(k+1) is followed by one 2^(k-52)
\* further, so i + 0.f is rounded down to i, i at least 1, if 0.f is at most
\* 2^(k-53); it is rounded up to n = i + 1 if 1 - 0.f is at most 2^(k-53),
\* and at most 2^(k-54) if n is 2^k, the double before n being half as far.
\* A number half-way between two doubles is rounded to the integer, whose
\* significand is even.  The digits of 1 - 0.f are 9 less those of f, the
\* last 10 less that of f.
Nearest(i, f) ==
    IF i >= 1 /\ FracLeq(f, TwoToMinus(53 - Log2(i))) THEN Num(i)
    ELSE IF /\ i + 1 <= 999999999
            /\ FracLeq([j \in 1..Len(f) |-> IF j = Len(f) THEN 10 - f[j] ELSE 9 - f[j]],
                       TwoToMinus((IF i + 1 = 2 ^ Log2(i + 1) THEN 54 ELSE 53)
                                  - Log2(i + 1)))
    THEN Num(i + 1)
    ELSE NotHeld

\* The number d x 10^e of the digit sequence d, which neither starts nor
\* ends with 0: 0 for the empty sequence, the integer if e is not negative,
\* and the double the conversion rounds to otherwise, if it is a number the
\* model holds.  Len(d) + e is the number of digits before the point; a
\* number up to half of the least double above 0 is rounded to 0.
Scaled(d, e) ==
    IF Len(d) = 0 \/ Len(d) + e < -323 THEN Num(0)
    ELSE IF Len(d) + e > 9 THEN NotHeld
    ELSE IF e >= 0 THEN Num(DigitsVal(d, 10) * (10 ^ e))
    ELSE IF Len(d) + e > 0
    THEN Nearest(DigitsVal(SubSeq(d, 1, Len(d) + e), 10),
                 DigitsOf(SubSeq(d, Len(d) + e + 1, Len(d))))
    ELSE IF Len(d) + e = 0 THEN Nearest(0, DigitsOf(d))
    ELSE IF Len(d) + e = -323 /\ FracLeq(DigitsOf(d), DigitsOf(HalfLeastDouble))
    THEN Num(0)
    ELSE NotHeld

\* The number digits x 10^exp of a decimal literal, digits a sequence of
\* decimal digits.
ScaledNumber(digits, exp) ==
    Scaled(StripLeadingZeros(SubSeq(digits, 1, Len(digits) - TrailingZeros(digits))),
           exp + TrailingZeros(digits))

\* The value of an exponent of the sign and the digits d, d without leading
\* zeros.  An exponent of more than nine digits counts as one of 999999999,
\* which gives the same number for every string shorter than that.
ExponentValue(sign, d) ==
    Num((IF sign = "-" THEN -1 ELSE 1)
        * (IF Len(d) > 9 THEN 999999999 ELSE DigitsVal(d, 10)))

\* The exponent of the sign and the digit sequence ds, NaN if ds is empty or
\* holds anything but digits.
SignedExponent(sign, ds) ==
    IF Len(ds) = 0 \/ ~IsDigits(ds, 10) THEN NaN
    ELSE ExponentValue(sign, StripLeadingZeros(ds))

\* The exponent part of a decimal literal, after the e: a sign or none, then
\* digits.
ExponentOf(s) ==
    IF Len(s) > 0 /\ Char(s, 1) \in {"+", "-"}
    THEN SignedExponent(Char(s, 1), SubSeq(s, 2, Len(s)))
    ELSE SignedExponent("+", s)

\* A decimal literal of the digits before and after the point and of the
\* exponent exp: at least one digit.
DecimalParts(digits, fracLen, exp) ==
    IF ~IsDigits(digits, 10) \/ Len(digits) = 0 \/ exp = NaN THEN NaN
    ELSE IF StripLeadingZeros(digits) = "" THEN Num(0)
    ELSE ScaledNumber(digits, exp.n - fracLen)

\* A decimal literal of the mantissa mant, whose first point, if any, is at
\* the place dot.
Decimal(mant, dot, exp) ==
    DecimalParts(SubSeq(mant, 1, dot - 1) \o SubSeq(mant, dot + 1, Len(mant)),
                 IF dot > Len(mant) THEN 0 ELSE Len(mant) - dot, exp)

\* A decimal literal s whose first e, if any, is at the place ePos.
DecimalAt(s, ePos) ==
    Decimal(SubSeq(s, 1, ePos - 1), FirstOf(SubSeq(s, 1, ePos - 1), {"."}),
            IF ePos > Len(s) THEN Num(0) ELSE ExponentOf(SubSeq(s, ePos + 1, Len(s))))

\* An unsigned decimal literal: digits with an optional point among them,
\* at least one digit, and an optional exponent part; or Infinity.
UnsignedDecimal(s) ==
    IF s = "Infinity" THEN NotHeld ELSE DecimalAt(s, FirstOf(s, {"e", "E"}))

\* The value of the digits d of the base, d without leading zeros, if it is
\* a number the model holds: the digits spell a number below 2^30 if they
\* are few enough.
RadixValue(d, base) ==
    IF \/ base = 16 /\ (Len(d) > 8 \/ (Len(d) = 8 /\ DigitVal(Char(d, 1)) > 3))
       \/ base = 8 /\ Len(d) > 10
       \/ base = 2 /\ Len(d) > 30
       \/ DigitsVal(d, base) > 999999999
    THEN NotHeld
    ELSE Num(DigitsVal(d, base))

\* A literal after its prefix 0x, 0o or 0b: at least one digit of the base.
Radix(s, prefix) ==
    IF Len(s) = 0 \/ ~IsDigits(s, CASE prefix \in {"0x", "0X"} -> 16
                                     [] prefix \in {"0o", "0O"} -> 8
                                     [] prefix \in {"0b", "0B"} -> 2)
    THEN NaN
    ELSE RadixValue(StripLeadingZeros(s), CASE prefix \in {"0x", "0X"} -> 16
                                            [] prefix \in {"0o", "0O"} -> 8
                                            [] prefix \in {"0b", "0B"} -> 2)

\* The number of the string s without white space at its ends: the empty
\* string is 0; a hexadecimal, octal or binary literal without a sign, or a
\* decimal literal with a sign or none, is its value; any other string is NaN.
\* The model holds no negative number.
Literal(s) ==
    IF s = "" THEN Num(0)
    ELSE IF SubSeq(s, 1, IF Len(s) < 2 THEN Len(s) ELSE 2)
            \in {"0x", "0X", "0o", "0O", "0b", "0B"}
    THEN Radix(SubSeq(s, 3, Len(s)), SubSeq(s, 1, 2))
    ELSE IF Char(s, 1) = "+" THEN UnsignedDecimal(SubSeq(s, 2, Len(s)))
    ELSE IF Char(s, 1) # "-" THEN UnsignedDecimal(s)
    ELSE IF UnsignedDecimal(SubSeq(s, 2, Len(s))) \in {NaN, Num(0)}
    THEN UnsignedDecimal(SubSeq(s, 2, Len(s)))
    ELSE NotHeld

\* The number a string converts to: white space is stripped at both ends.
\* NotHeld for a number the model does not hold.
StringToNumber(str) == Literal(TrimWhiteSpace(str))

\* Array.isArray(v)
IsArray(v) == v.t = "arr"

\* v && typeof v === "object"
IsObject(v) == v.t \in {"arr", "obj"}

\* ToBoolean(v)
Truthy(v) ==
    CASE v.t \in {"undefined", "null", "NaN"} -> FALSE
      [] v.t = "num" -> v.n # 0
      [] v.t = "str" -> v.s # ""
      [] OTHER -> TRUE

\* a ?? b
Coalesce(a, b) == IF a.t \in {"undefined", "null"} THEN b ELSE a

\* v.key, for a v that is neither null nor undefined: an own property of an
\* object, undefined on anything else the model builds (numbers, strings and
\* arrays have none of the property names the code reads).
Get(v, key) ==
    IF v.t = "obj" /\ \E i \in 1..Len(v.o) : v.o[i][1] = key
    THEN v.o[CHOOSE i \in 1..Len(v.o) : v.o[i][1] = key][2]
    ELSE Undefined

\* String(v).  An array is its elements joined with commas, null and
\* undefined elements as the empty string.
RECURSIVE JSString(_)
RECURSIVE Join(_, _)
Join(a, i) ==
    IF i > Len(a) THEN ""
    ELSE (IF i > 1 THEN "," ELSE "")
         \o (IF a[i].t \in {"null", "undefined"} THEN "" ELSE JSString(a[i]))
         \o Join(a, i + 1)

JSString(v) ==
    CASE v.t = "str" -> v.s
      [] v.t = "num" -> DecStr(v.n)
      [] v.t = "NaN" -> "NaN"
      [] v.t = "null" -> "null"
      [] v.t = "undefined" -> "undefined"
      [] v.t = "obj" -> "[object Object]"
      [] v.t = "arr" -> Join(v.a, 1)

\* A converted number, which has no value if the model does not hold it.
Held(n) == CASE n # NotHeld -> n

\* Number(v): a number is itself, a string is converted, undefined is NaN,
\* null is 0, and an object or an array is the conversion of String(v).  The
\* operator has no value for a number the model does not hold.
ToNumber(v) ==
    CASE v.t = "num" -> v
      [] v.t = "NaN" -> NaN
      [] v.t = "undefined" -> NaN
      [] v.t = "null" -> Num(0)
      [] v.t \in {"str", "obj", "arr"} -> Held(StringToNumber(JSString(v)))

\* f with f[k] = v: a property assignment obj[k] = v.
Put(f, k, v) == [x \in DOMAIN f \cup {k} |-> IF x = k THEN v ELSE f[x]]

EmptyMap == [x \in {} |-> 0]

\* obj[k] = v on a plain object ({}) for a string v: the key "__proto__" is
\* the accessor of Object.prototype, whose setter takes objects and null
\* only, so the assignment of a string to it adds no property.
Assign(obj, k, v) == IF k = "__proto__" THEN obj ELSE Put(obj, k, v)

\* The elements of a finite set of integers in ascending order.
RECURSIVE SortAsc(_)
SortAsc(S) ==
    IF S = {} THEN <<>>
    ELSE LET m == CHOOSE x \in S : \A y \in S : x <= y
         IN <<m>> \o SortAsc(S \ {m})

\* The integer indices of a finite set in ascending order.
RECURSIVE SortIndices(_)
SortIndices(S) ==
    IF S = {} THEN <<>>
    ELSE LET m == CHOOSE x \in S : \A y \in S : x = y \/ IndexLess(x, y)
         IN <<m>> \o SortIndices(S \ {m})

\* The entries o of an object in the order of Object.entries: those of the
\* integer-index keys, which ord lists ascending, then the others in
\* insertion order.
EntriesInOrder(o, ord) ==
    [j \in 1..Len(ord) |-> o[CHOOSE i \in 1..Len(o) : o[i][1] = ord[j]]]
    \o SelectSeq(o, LAMBDA e : ~IsDec(e[1]))

\* Object.entries(v) of an object: the integer-index keys first, ascending,
\* then the other keys in insertion order.
Entries(v) ==
    EntriesInOrder(v.o, SortIndices({v.o[i][1] : i \in {j \in 1..Len(v.o) : IsDec(v.o[j][1])}}))

-----------------------------------------------------------------------------
(* normalizeBook *)

\* versesObj.forEach((v, i) => ...) of addChapter, from the i-th element on
\* (i counts from 1, so the code's i + 1 is i here).
RECURSIVE VmapOfArray(_, _, _)
VmapOfArray(a, i, vmap) ==
    IF i > Len(a) THEN vmap
    ELSE LET v == a[i] IN
         IF IsObject(v)
         THEN LET num == JSString(Coalesce(Get(v, "verse"),
                                  Coalesce(Get(v, "num"),
                                  Coalesce(Get(v, "v"), Num(i)))))
                  txt == JSString(Coalesce(Get(v, "text"),
                                  Coalesce(Get(v, "t"), Str(""))))
              IN VmapOfArray(a, i + 1, Assign(vmap, num, txt))
         ELSE VmapOfArray(a, i + 1,
                          Assign(vmap, DecStr(i), JSString(Coalesce(v, Str("")))))

\* for (const [k, v] of Object.entries(versesObj)) vmap[String(k)] = String(v ?? "")
RECURSIVE VmapOfEntries(_, _, _)
VmapOfEntries(es, i, vmap) ==
    IF i > Len(es) THEN vmap
    ELSE VmapOfEntries(es, i + 1,
                       Assign(vmap, es[i][1], JSString(Coalesce(es[i][2], Str("")))))

\* The vmap addChapter fills from versesObj.
Vmap(versesObj) ==
    IF IsArray(versesObj) THEN VmapOfArray(versesObj.a, 1, EmptyMap)
    ELSE IF IsObject(versesObj) THEN VmapOfEntries(Entries(versesObj), 1, EmptyMap)
    ELSE EmptyMap

\* Object.keys(vmap).length
KeyCount(vmap) == Cardinality(DOMAIN vmap)

\* addChapter taking the length of the input array for the verse count.
addChapterInputLength(chapters, chNum, versesObj) ==
    LET vmap == Vmap(versesObj)
    IN Put(chapters, ToNumber(chNum),
           [verseCount |-> IF IsArray(versesObj) THEN Len(versesObj.a) ELSE KeyCount(vmap),
            verses |-> vmap])

\* addChapter(chNum, versesObj): out.chapters after the call.  The property
\* key String(Number(chNum)) is kept as the number it spells, which is what
\* every reader of out.chapters turns it back into (Object.keys(..).map(Number)).
addChapter(chapters, chNum, versesObj) ==
    LET vmap == Vmap(versesObj)
    IN Put(chapters, ToNumber(chNum), [verseCount |-> KeyCount(vmap), verses |-> vmap])

Book(name, chapters) == [t |-> "book", name |-> name, chapters |-> chapters]

\* A thrown error: its class, and its message as a fixed text followed by
\* a book name (the empty name when the message ends with the text).
Throw(error, text, name) ==
    [t |-> "throw", error |-> error, text |-> text, name |-> name]

\* Reading a property of null.
NullRead(key) == Throw("TypeError", "Cannot read properties of null", <<>>)

\* for (const ch of data.chapters) { ... } of the first shape, from the i-th
\* element on: ch.chapter of a null element throws.
RECURSIVE ChaptersOfArray(_, _, _)
ChaptersOfArray(a, i, chapters) ==
    IF i > Len(a) THEN [t |-> "ok", chapters |-> chapters]
    ELSE LET ch == a[i] IN
         IF ch.t = "null" THEN NullRead("chapter")
         ELSE LET chNum == ToNumber(Get(ch, "chapter"))
                  verses == Get(ch, "verses")
                  vv == IF IsArray(verses) THEN verses
                        ELSE IF Truthy(verses) THEN verses ELSE Obj(<<>>)
              IN ChaptersOfArray(a, i + 1, addChapter(chapters, chNum, vv))

\* for (const [chNum, verses] of Object.entries(data.chapters)) addChapter(chNum, verses)
RECURSIVE ChaptersOfEntries(_, _, _)
ChaptersOfEntries(es, i, chapters) ==
    IF i > Len(es) THEN chapters
    ELSE ChaptersOfEntries(es, i + 1, addChapter(chapters, Str(es[i][1]), es[i][2]))

\* The bare-array loop numbering the chapters from 0: addChapter(i, chap).
RECURSIVE ChaptersOfBareFromZero(_, _, _)
ChaptersOfBareFromZero(a, i, chapters) ==
    IF i > Len(a) THEN chapters
    ELSE ChaptersOfBareFromZero(a, i + 1, addChapter(chapters, Num(i - 1), a[i]))

\* data.forEach((chap, i) => addChapter(i + 1, chap))
RECURSIVE ChaptersOfBare(_, _, _)
ChaptersOfBare(a, i, chapters) ==
    IF i > Len(a) THEN chapters
    ELSE ChaptersOfBare(a, i + 1, addChapter(chapters, Num(i), a[i]))

\* data && Array.isArray(data.chapters)
IsShape1(data) == Truthy(data) /\ IsArray(Get(data, "chapters"))

\* data && typeof data === "object" && data.chapters && typeof data.chapters === "object"
IsShape2(data) == IsObject(data) /\ IsObject(Get(data, "chapters"))

\* Array.isArray(data) && data.length && Array.isArray(data[0])
IsShape3(data) == IsArray(data) /\ Len(data.a) > 0 /\ IsArray(data.a[1])

normalizeBook(name, data) ==
    IF IsShape1(data)
    THEN LET r == ChaptersOfArray(Get(data, "chapters").a, 1, EmptyMap)
         IN IF r.t = "ok" THEN Book(name, r.chapters) ELSE r
    ELSE IF IsShape2(data)
    THEN Book(name, ChaptersOfEntries(Entries(Get(data, "chapters")), 1, EmptyMap))
    ELSE IF IsShape3(data)
    THEN Book(name, ChaptersOfBare(data.a, 1, EmptyMap))
    ELSE Throw("Error", "Unrecognized book JSON structure for ", name)

-----------------------------------------------------------------------------
(* slugify *)

Upper == <<"A", "B", "C", "D", "E", "F", "G", "H", "I", "J", "K", "L", "M",
           "N", "O", "P", "Q", "R", "S", "T", "U", "V", "W", "X", "Y", "Z">>
Lower == <<"a", "b", "c", "d", "e", "f", "g", "h", "i", "j", "k", "l", "m",
           "n", "o", "p", "q", "r", "s", "t", "u", "v", "w", "x", "y", "z">>
Digits == {"0", "1", "2", "3", "4", "5", "6", "7", "8", "9"}

\* The characters \s matches and trim() strips: tab, line feed, vertical tab
\* (U+000B), form feed, carriage return, space, no-break space (U+00A0), ogham
\* space mark (U+1680) and the byte order mark (U+FEFF).  These are all the
\* characters of \s that a string of the model can hold (see StrWhiteSpace).
Whitespace == {"\t", "\n", "", "\f", "\r", " ", " ", " ", "﻿"}

IsSpace(c) == c \in Whitespace

\* [a-z0-9\s]
IsSlugInput(c) == (\E i \in 1..Len(Lower) : Lower[i] = c) \/ c \in Digits \/ IsSpace(c)

\* trim(): without the leading and the trailing whitespace.
trim(s) ==
    IF \A i \in 1..Len(s) : IsSpace(s[i]) THEN <<>>
    ELSE LET first == CHOOSE i \in 1..Len(s) :
                          ~IsSpace(s[i]) /\ \A j \in 1..(i - 1) : IsSpace(s[j])
             last == CHOOSE i \in 1..Len(s) :
                          ~IsSpace(s[i]) /\ \A j \in (i + 1)..Len(s) : IsSpace(s[j])
         IN SubSeq(s, first, last)

\* Whether replace(/[^a-z0-9\s]/g, "") keeps what toLowerCase() makes of the
\* character c.  toLowerCase() turns A to Z into a to z and leaves a to z, the
\* digits and the whitespace as they are; of every other character it makes
\* characters outside [a-z0-9\s], whatever stands next to it (a capital sigma
\* becomes one of the two small sigmas).  The two characters of which it
\* makes a letter of a to z, U+0130 (i and U+0307) and U+212A (k), are none a
\* string of the model can hold.
LowersToSlugInput(c) == (\E i \in 1..Len(Upper) : Upper[i] = c) \/ IsSlugInput(c)

\* What toLowerCase() makes of a character that lowers to [a-z0-9\s].
LowerOfSlugInput(c) ==
    CASE \E i \in 1..Len(Upper) : Upper[i] = c ->
             Lower[CHOOSE i \in 1..Len(Upper) : Upper[i] = c]
      [] IsSlugInput(c) -> c

\* toLowerCase().replace(/[^a-z0-9\s]/g, ""): the characters that lower to
\* [a-z0-9\s], in lower case.
LowerAndStrip(s) ==
    LET kept == SelectSeq(s, LowersToSlugInput)
    IN [i \in 1..Len(kept) |-> LowerOfSlugInput(kept[i])]

\* replace(/\s+/g, "-"): every maximal run of whitespace becomes one hyphen.
RECURSIVE HyphenateRuns(_)
HyphenateRuns(s) ==
    IF s = <<>> THEN <<>>
    ELSE IF IsSpace(s[1])
         THEN IF Len(s) > 1 /\ IsSpace(s[2])
              THEN HyphenateRuns(Tail(s))
              ELSE <<"-">> \o HyphenateRuns(Tail(s))
         ELSE <<s[1]>> \o HyphenateRuns(Tail(s))

slugify(name) == HyphenateRuns(LowerAndStrip(trim(name)))

-----------------------------------------------------------------------------
(* prevRef, nextRef *)

\* A verse reference { slug, chapter, verse }; chapter is a JavaScript value.
Ref(slug, chapter, verse) ==
    [t |-> "ref", slug |-> slug, chapter |-> chapter, verse |-> verse]

\* Reading a property of undefined.
UndefinedRead(key) == Throw("TypeError", "Cannot read properties of undefined", <<>>)

\* seq[i] with the code's 0-based i: undefined outside the array.
At(seq, i) == IF i >= 0 /\ i < Len(seq) THEN seq[i + 1] ELSE Undefined

\* Array.prototype.indexOf, 0-based, -1 when absent.  It compares with ===,
\* so NaN is never found.
indexOf(seq, x) ==
    IF \E i \in 1..Len(seq) : seq[i] = x /\ x # NaN
    THEN (CHOOSE i \in 1..Len(seq) :
              seq[i] = x /\ \A j \in 1..(i - 1) : seq[j] # x) - 1
    ELSE -1

\* Array.prototype.indexOf on the slugs of idxOrder.
indexOfSlug(seq, x) ==
    IF \E i \in 1..Len(seq) : seq[i] = x
    THEN (CHOOSE i \in 1..Len(seq) :
              seq[i] = x /\ \A j \in 1..(i - 1) : seq[j] # x) - 1
    ELSE -1

\* Object.keys(book.chapters).map(Number).sort((a, b) => a - b): the keys
\* come integer keys first, ascending, then "NaN"; a - b is NaN against NaN,
\* which the sort takes for 0 and so leaves NaN last.
ChNums(book) ==
    LET nums == SortAsc({k.n : k \in {x \in DOMAIN book.chapters : x.t = "num"}})
    IN [i \in 1..Len(nums) |-> Num(nums[i])]
       \o (IF NaN \in DOMAIN book.chapters THEN <<NaN>> ELSE <<>>)

\* n || 1 of a verse count
OrOne(n) == IF n = 0 THEN 1 ELSE n

\* booksMap.get(slug)
HasBook(booksMap_, slug) == slug \in DOMAIN booksMap_

\* Whether book.chapters[ch] is an object (not undefined).
HasChapter(book, ch) == ch \in DOMAIN book.chapters

\* prevRef landing on verse 1 of the previous book's last chapter.
prevRefFirstVerse(idxOrder, currentSlug, chapter, verse, booksMap_) ==
    IF verse > 1 THEN Ref(currentSlug, chapter, verse - 1)
    ELSE IF ~HasBook(booksMap_, currentSlug) THEN UndefinedRead("chapters")
    ELSE
    LET book == booksMap_[currentSlug]
        chNums == ChNums(book)
        i == indexOf(chNums, chapter)
        bIndex == indexOfSlug(idxOrder, currentSlug)
    IN IF i > 0
       THEN LET prevCh == At(chNums, i - 1)
                vc == OrOne(book.chapters[prevCh].verseCount)
            IN Ref(currentSlug, prevCh, vc)
       ELSE IF bIndex > 0
       THEN LET prevBookSlug == At(idxOrder, bIndex - 1)
                prevBook == booksMap_[prevBookSlug]
                prevChNums == ChNums(prevBook)
                lastCh == At(prevChNums, Len(prevChNums) - 1)
            IN IF ~HasChapter(prevBook, lastCh) THEN UndefinedRead("verseCount")
               ELSE Ref(prevBookSlug, lastCh, 1)
       ELSE JNull

prevRef(idxOrder, currentSlug, chapter, verse, booksMap_) ==
    IF verse > 1 THEN Ref(currentSlug, chapter, verse - 1)
    ELSE IF ~HasBook(booksMap_, currentSlug) THEN UndefinedRead("chapters")
    ELSE
    LET book == booksMap_[currentSlug]
        chNums == ChNums(book)
        i == indexOf(chNums, chapter)
        bIndex == indexOfSlug(idxOrder, currentSlug)
    IN IF i > 0
       THEN LET prevCh == At(chNums, i - 1)
                vc == OrOne(book.chapters[prevCh].verseCount)
            IN Ref(currentSlug, prevCh, vc)
       ELSE IF bIndex > 0
       THEN LET prevBookSlug == At(idxOrder, bIndex - 1)
                prevBook == booksMap_[prevBookSlug]
                prevChNums == ChNums(prevBook)
                lastCh == At(prevChNums, Len(prevChNums) - 1)
            IN IF ~HasChapter(prevBook, lastCh) THEN UndefinedRead("verseCount")
               ELSE Ref(prevBookSlug, lastCh, OrOne(prevBook.chapters[lastCh].verseCount))
       ELSE JNull

\* nextRef stepping to chapter + 1 instead of the next chapter number.
nextRefPlusOne(idxOrder, currentSlug, chapter, verse, booksMap_) ==
    IF ~HasBook(booksMap_, currentSlug) THEN UndefinedRead("chapters")
    ELSE
    LET book == booksMap_[currentSlug]
        chNums == ChNums(book)
        i == indexOf(chNums, chapter)
        bIndex == indexOfSlug(idxOrder, currentSlug)
    IN IF HasChapter(book, chapter) /\ verse < book.chapters[chapter].verseCount
       THEN Ref(currentSlug, chapter, verse + 1)
       ELSE IF i >= 0 /\ i < Len(chNums) - 1
       THEN Ref(currentSlug, Num(chapter.n + 1), 1)
       ELSE IF bIndex >= 0 /\ bIndex < Len(idxOrder) - 1
       THEN LET nbSlug == At(idxOrder, bIndex + 1)
                nb == booksMap_[nbSlug]
                nbChNums == ChNums(nb)
            IN Ref(nbSlug, At(nbChNums, 0), 1)
       ELSE JNull

nextRef(idxOrder, currentSlug, chapter, verse, booksMap_) ==
    IF ~HasBook(booksMap_, currentSlug) THEN UndefinedRead("chapters")
    ELSE
    LET book == booksMap_[currentSlug]
        chNums == ChNums(book)
        i == indexOf(chNums, chapter)
        bIndex == indexOfSlug(idxOrder, currentSlug)
    IN IF HasChapter(book, chapter) /\ verse < book.chapters[chapter].verseCount
       THEN Ref(currentSlug, chapter, verse + 1)
       ELSE IF i >= 0 /\ i < Len(chNums) - 1
       THEN Ref(currentSlug, At(chNums, i + 1), 1)
       ELSE IF bIndex >= 0 /\ bIndex < Len(idxOrder) - 1
       THEN LET nbSlug == At(idxOrder, bIndex + 1)
                nb == booksMap_[nbSlug]
                nbChNums == ChNums(nb)
            IN Ref(nbSlug, At(nbChNums, 0), 1)
       ELSE JNull

-----------------------------------------------------------------------------
(* Inputs *)

Genesis == <<"G", "e", "n", "e", "s", "i", "s">>
Exodus == <<"E", "x", "o", "d", "u", "s">>
SongOfSolomon == <<"S", "o", "n", "g", " ", "o", "f", " ",
                   "S", "o", "l", "o", "m", "o", "n">>

GenesisCaps == <<"G", "E", "N", "E", "S", "I", "S">>

\* The book names a manifest is made of.
BookNames == {Genesis, Exodus, SongOfSolomon, GenesisCaps}

\* The longest manifest.
MaxBooks == 2

RECURSIVE SeqsUpTo(_, _)
\* The sequences over S of length at most n.
SeqsUpTo(S, n) ==
    IF n = 0 THEN {<<>>}
    ELSE LET shorter == SeqsUpTo(S, n - 1)
         IN shorter \cup {Append(q, x) : q \in {r \in shorter : Len(r) = n - 1}, x \in S}

\* Books.json: a non-empty array of names (findBaseAndBooksJson returns no
\* other).
Manifests == {m \in SeqsUpTo(BookNames, MaxBooks) : Len(m) > 0}

\* { chapter: n, verses: [...] }
ChapterObj(n, verses) == Obj(<<<<"chapter", Num(n)>>, <<"verses", Arr(verses)>>>>)

\* The parsed bodies a book's JSON file is fetched as.
RawBooks ==
    { \* {"chapters":[{"chapter":1,"verses":["A","B"]}]}
      Obj(<<<<"chapters", Arr(<<ChapterObj(1, <<Str("A"), Str("B")>>)>>)>>>>),
      \* [["C"]]
      Arr(<<Arr(<<Str("C")>>)>>),
      \* [["A"],["B","C"],["D"]]
      Arr(<<Arr(<<Str("A")>>), Arr(<<Str("B"), Str("C")>>), Arr(<<Str("D")>>)>>),
      \* {"chapters":{"3":["B","C"],"1":["A"]}}
      Obj(<<<<"chapters", Obj(<<<<"3", Arr(<<Str("B"), Str("C")>>)>>,
                                <<"1", Arr(<<Str("A")>>)>>>>)>>>>),
      \* {"chapters":{"1":[],"2":["A"]}}
      Obj(<<<<"chapters", Obj(<<<<"1", Arr(<<>>)>>, <<"2", Arr(<<Str("A")>>)>>>>)>>>>),
      \* {"chapters":{"2":["A","B"],"4":[]}}
      Obj(<<<<"chapters", Obj(<<<<"2", Arr(<<Str("A"), Str("B")>>)>>,
                                <<"4", Arr(<<>>)>>>>)>>>>),
      \* {"chapters":[]}
      Obj(<<<<"chapters", Arr(<<>>)>>>>),
      \* {"chapters":[{"chapter":1,"verses":["A"]},{"verses":["B"]}]}
      Obj(<<<<"chapters", Arr(<<ChapterObj(1, <<Str("A")>>),
                                Obj(<<<<"verses", Arr(<<Str("B")>>)>>>>)>>)>>>>),
      \* {"chapters":[null]}
      Obj(<<<<"chapters", Arr(<<JNull>>)>>>>),
      \* null
      JNull }

-----------------------------------------------------------------------------
(* main *)

Pending == [t |-> "pending"]

\* books.map(n => ({ name: n, slug: slugify(n), ... }))
IndexListOf(names) == [i \in 1..Len(names) |-> [name |-> names[i], slug |-> slugify(names[i])]]

\* idxOrder: indexList.map(b => b.slug)
idxOrder == [i \in 1..Len(indexList) |-> indexList[i].slug]

\* No pure function is being applied while main runs.
PureIdle == call = "idle" /\ arg = <<>> /\ res = Pending

\* The loop variables of the "Verse pages" loops: the row, the position in
\* chNums and the verse; row = Len(rows) + 1 once the loops are over.
Pos(row, ci, v) == [row |-> row, ci |-> ci, v |-> v]

RECURSIVE RowFrom(_, _, _)
\* The first row from row i on whose book has a chapter: the loops pass over
\* a book without chapters without running their body.
RowFrom(rows, map, i) ==
    IF i > Len(rows) THEN Len(rows) + 1
    ELSE IF ChNums(map[rows[i].slug]) # <<>> THEN i
    ELSE RowFrom(rows, map, i + 1)

\* The verse loop leaving a chapter one verse early: v < vc for v <= vc.
AdvanceBelowCount(rows, map, p) ==
    LET b == map[rows[p.row].slug]
        chNums == ChNums(b)
        vc == OrOne(b.chapters[chNums[p.ci]].verseCount)
    IN IF p.v + 1 < vc THEN Pos(p.row, p.ci, p.v + 1)
       ELSE IF p.ci < Len(chNums) THEN Pos(p.row, p.ci + 1, 1)
       ELSE Pos(RowFrom(rows, map, p.row + 1), 1, 1)

\* The loop variables when the body runs next after the round at pos.
Advance(rows, map, p) ==
    LET b == map[rows[p.row].slug]
        chNums == ChNums(b)
        vc == OrOne(b.chapters[chNums[p.ci]].verseCount)
    IN IF p.v + 1 <= vc THEN Pos(p.row, p.ci, p.v + 1)
       ELSE IF p.ci < Len(chNums) THEN Pos(p.row, p.ci + 1, 1)
       ELSE Pos(RowFrom(rows, map, p.row + 1), 1, 1)

\* canonicalUrl(bookSlug, chapter, verse): SITE_BASE_URL/slug/chapter/verse/,
\* kept as its three path segments, the chapter and the verse as the template
\* literal spells them.
canonicalUrl(bookSlug, chapter, verse) ==
    [t |-> "url", slug |-> bookSlug, chapter |-> JSString(chapter), verse |-> DecStr(verse)]

\* urls: one canonical URL pushed per verse page, in emission order.
urls == [i \in 1..Len(pages) |-> canonicalUrl(pages[i].slug, pages[i].chapter, pages[i].verse)]

\* `${SITE_BASE_URL}/genesis/1/1/`
GenesisOneOne == [t |-> "url", slug |-> <<"g", "e", "n", "e", "s", "i", "s">>,
                  chapter |-> "1", verse |-> "1"]

\* urls[0] || `${SITE_BASE_URL}/genesis/1/1/`, for a list of n URLs
FirstUrl(list) == IF Len(list) > 0 THEN list[1] ELSE GenesisOneOne

CHUNK == 50000

\* A written <urlset> file of the URLs list.slice(from, to); n is the number
\* in the name sitemap-n.xml, 0 for sitemap.xml.
UrlSetFile(file, n, from, to) ==
    [file |-> file, n |-> n, kind |-> "urlset", from |-> from, to |-> to]

\* slice(from, to) of a list of len elements keeps the indexes within the list.
SliceEnd(i, len) == IF i > len THEN len ELSE i

\* The number of parts rounded down instead of up.
PartsFloor(n) == n \div CHUNK

\* Math.ceil(n / CHUNK)
Parts(n) == (n + CHUNK - 1) \div CHUNK

\* The "Sitemaps" block with the single file kept for fewer than CHUNK URLs only.
SitemapFilesBelowChunk(n) ==
    IF n < CHUNK
    THEN <<UrlSetFile("sitemap.xml", 0, 0, n)>>
    ELSE [i \in 1..Parts(n) |->
             UrlSetFile("sitemap-n.xml", i,
                        SliceEnd((i - 1) * CHUNK, n), SliceEnd(i * CHUNK, n))]
         \o <<[file |-> "sitemap.xml", n |-> 0, kind |-> "sitemapindex",
               items |-> [i \in 1..Parts(n) |-> i]]>>

\* The "Sitemaps" block for a list of n URLs: the files it writes, in order.
SitemapFiles(n) ==
    IF n <= CHUNK
    THEN <<UrlSetFile("sitemap.xml", 0, 0, n)>>
    ELSE [i \in 1..Parts(n) |->
             UrlSetFile("sitemap-n.xml", i,
                        SliceEnd((i - 1) * CHUNK, n), SliceEnd(i * CHUNK, n))]
         \o <<[file |-> "sitemap.xml", n |-> 0, kind |-> "sitemapindex",
               items |-> [i \in 1..Parts(n) |-> i]]>>

\* The files the "Helper pages" loop writes for one row: the book index,
\* then a chapter index per chapter number.
HelperPagesOf(row, map) ==
    LET b == map[row.slug]
        chNums == ChNums(b)
    IN <<[file |-> "book index", slug |-> row.slug, first |-> At(chNums, 0)]>>
       \o [i \in 1..Len(chNums) |->
             [file |-> "chapter index", slug |-> row.slug, chapter |-> chNums[i],
              verseCount |-> b.chapters[chNums[i]].verseCount]]

RECURSIVE HelperPages(_, _, _)
\* The files the "Helper pages" loop writes from row i on.
HelperPages(rows, map, i) ==
    IF i > Len(rows) THEN <<>>
    ELSE HelperPagesOf(rows[i], map) \o HelperPages(rows, map, i + 1)

\* fetchJSONwithRetry(row.jsonUrl) rejected after its attempts.
FetchRejected == [t |-> "rejected"]

-----------------------------------------------------------------------------
(* fetchJSONwithRetry, findBaseAndBooksJson *)

DATA_BASES ==
    <<"https://cdn.jsdelivr.net/gh/Living-Word-Bibles/king-james-version@main/",
      "https://raw.githubusercontent.com/Living-Word-Bibles/king-james-version/main/",
      "https://cdn.jsdelivr.net/gh/aruljohn/Bible-kjv@master/",
      "https://raw.githubusercontent.com/aruljohn/Bible-kjv/master/">>

TRY_PATHS == <<"", "Bible-kjv-master/">>

\* tries = 3
Tries == 3

\* The unit of sleep(250 * (i + 1))
BackoffMs == 250

\* base + sub + "Books.json", kept as its base and its sub-path.
BooksUrl(bi, si) == [base |-> DATA_BASES[bi], sub |-> TRY_PATHS[si]]

NoUrl == [base |-> "", sub |-> ""]

\* An error message: a text, followed by a URL when the message ends with one.
Message(text, url) == [text |-> text, url |-> url]

\* What one attempt of fetchJSONwithRetry can meet: fetch() rejects; the
\* status is not OK; the body is served as application/json and r.json()
\* rejects; the body is served as another type and JSON.parse throws; or the
\* body parses, to the value v.
FetchOutcomes(bodies) ==
    {[t |-> "network"], [t |-> "status"], [t |-> "json-unparsable"],
     [t |-> "text-unparsable"]}
    \cup {[t |-> "body", v |-> b] : b \in bodies}

\* The message of the error an attempt ends with.
ErrorOf(o, url) ==
    CASE o.t = "network" -> Message("fetch failed", NoUrl)
      [] o.t = "status" -> Message("HTTP 404 @ ", url)
      [] OTHER -> Message("Unexpected token", NoUrl)

\* A retry loop that sleeps after the third failed attempt as well and makes
\* a fourth.
AttemptOfWaitAfterThird(i, o, url) ==
    IF o.t = "body" THEN [t |-> "return", v |-> o.v]
    ELSE IF o.t = "json-unparsable" THEN [t |-> "reject", e |-> ErrorOf(o, url)]
    ELSE IF i < Tries THEN [t |-> "sleep", ms |-> BackoffMs * (i + 1)]
    ELSE [t |-> "reject", e |-> ErrorOf(o, url)]

\* Attempt i (from 0) of fetchJSONwithRetry(url) meeting o: the function
\* returns the parsed value; or it rejects, with the error of r.json() that
\* the try block returns without awaiting, or with lastErr after the last
\* attempt; or it sleeps and goes round again.
AttemptOf(i, o, url) ==
    IF o.t = "body" THEN [t |-> "return", v |-> o.v]
    ELSE IF o.t = "json-unparsable" THEN [t |-> "reject", e |-> ErrorOf(o, url)]
    ELSE IF i < Tries - 1 THEN [t |-> "sleep", ms |-> BackoffMs * (i + 1)]
    ELSE [t |-> "reject", e |-> ErrorOf(o, url)]

\* Array.isArray(books) && books.length
IsManifest(books) == IsArray(books) /\ Len(books.a) > 0

\* The loops of findBaseAndBooksJson: the candidate after <<bi, si>>, or
\* <<>> after the last.
NextCandidate(bi, si) ==
    IF si < Len(TRY_PATHS) THEN <<bi, si + 1>>
    ELSE IF bi < Len(DATA_BASES) THEN <<bi + 1, 1>>
    ELSE <<>>

\* The parsed body of a Books.json that lists the names: an array of strings,
\* each string the sequence of its characters.
ManifestBody(names) == Arr([i \in 1..Len(names) |-> Str(names[i])])

\* String(n) for an element n of books, as the sequence of its characters.
NameChars(n) ==
    CASE n.t = "str" -> n.s
      [] n.t = "null" -> <<"n", "u", "l", "l">>

\* findBaseAndBooksJson() about to make attempt i of the fetch of candidate
\* <<bi, si>>: waits are the sleeps of this fetch so far, tried the URLs
\* fetched so far, lastErr the diagnostic of the candidate before, and done
\* the fetch of the candidate before; fetches counts the calls of fetch()
\* so far.
Resolving(bi, si, i, waits, tried, lastErr, done, fetches) ==
    [pc |-> "fetch", bi |-> bi, si |-> si, i |-> i, waits |-> waits,
     tried |-> tried, lastErr |-> lastErr, done |-> done, fetches |-> fetches]

\* A finished call of fetchJSONwithRetry: its URL, the attempts it made, its
\* sleeps, and whether it rejected.
Fetched(url, attempts, waits, rejected) ==
    [url |-> url, attempts |-> attempts, waits |-> waits, rejected |-> rejected]

NoFetch == Fetched(NoUrl, 0, <<>>, FALSE)

\* findBaseAndBooksJson() has returned { base, subdir, books }.
Resolved(base, subdir, books, tried, fetches) ==
    [pc |-> "returned", base |-> base, subdir |-> subdir, books |-> books,
     tried |-> tried, fetches |-> fetches]

\* findBaseAndBooksJson() has thrown
\* new Error("Could not load Books.json. " + (lastErr || "")).
Unresolved(lastErr, tried, done, fetches) ==
    [pc |-> "threw", error |-> "Error", text |-> "Could not load Books.json. ",
     detail |-> lastErr, tried |-> tried, done |-> done, fetches |-> fetches]

\* The resolver after the candidate at hand has failed with the diagnostic:
\* at the next candidate, or thrown after the last.
AfterFailure(r, tried, diagnostic, done) ==
    LET next == NextCandidate(r.bi, r.si)
    IN IF next = <<>> THEN Unresolved(diagnostic, tried, done, r.fetches + 1)
       ELSE Resolving(next[1], next[2], 0, <<>>, tried, diagnostic, done,
                      r.fetches + 1)

\* The resolver r after its next attempt has met o.
ResolverStep(r, o) ==
    LET url == BooksUrl(r.bi, r.si)
        tried == IF r.i = 0 THEN Append(r.tried, url) ELSE r.tried
        a == AttemptOf(r.i, o, url)
    IN CASE a.t = "sleep" ->
              Resolving(r.bi, r.si, r.i + 1, Append(r.waits, a.ms), tried, r.lastErr,
                        r.done, r.fetches + 1)
         [] a.t = "reject" ->
              AfterFailure(r, tried, a.e, Fetched(url, r.i + 1, r.waits, TRUE))
         [] a.t = "return" ->
              IF IsManifest(a.v)
              THEN Resolved(DATA_BASES[r.bi], TRY_PATHS[r.si], a.v, tried, r.fetches + 1)
              ELSE AfterFailure(r, tried, Message("Unexpected Books.json @ ", url),
                                Fetched(url, r.i + 1, r.waits, FALSE))

\* main() after findBaseAndBooksJson has returned the manifest, here from the
\* first candidate.
Init ==
    /\ \E names \in Manifests :
          /\ indexList = IndexListOf(names)
          /\ resolver = Resolved(DATA_BASES[1], TRY_PATHS[1], ManifestBody(names),
                                 <<BooksUrl(1, 1)>>, 1)
    /\ pc = "load"
    /\ booksMap = EmptyMap
    /\ countsMap = EmptyMap
    /\ loaded = 0
    /\ pos = Pos(0, 0, 0)
    /\ pages = <<>>
    /\ out = <<>>
    /\ PureIdle

\* A counts object that holds verseCount as it is.
CountsOfVerseCount(norm) ==
    [k \in {JSString(ch) : ch \in DOMAIN norm.chapters} |->
        LET ch == CHOOSE c \in DOMAIN norm.chapters : JSString(c) = k
        IN norm.chapters[ch].verseCount]

\* cmap: for (const ch of chNums)
\*           cmap[String(ch)] = Number(norm.chapters[ch].verseCount || 1)
CountsOf(norm) ==
    [k \in {JSString(ch) : ch \in DOMAIN norm.chapters} |->
        LET ch == CHOOSE c \in DOMAIN norm.chapters : JSString(c) = k
        IN OrOne(norm.chapters[ch].verseCount)]

\* A preload loop that leaves out a row whose file cannot be fetched or
\* normalized when more rows follow.
LoadBookSkipping(raw) ==
    /\ pc = "load"
    /\ loaded < Len(indexList)
    /\ LET row == indexList[loaded + 1]
           norm == IF raw = FetchRejected THEN Throw("Error", "fetch failed", row.name)
                   ELSE normalizeBook(row.name, raw)
       IN IF norm.t = "throw"
          THEN IF loaded + 1 < Len(indexList)
               THEN /\ loaded' = loaded + 1
                    /\ UNCHANGED <<booksMap, countsMap, pc>>
               ELSE /\ pc' = "failed"
                    /\ UNCHANGED <<booksMap, countsMap, loaded>>
          ELSE /\ booksMap' = Put(booksMap, row.slug, norm)
               /\ countsMap' = Put(countsMap, row.slug, CountsOf(norm))
               /\ loaded' = loaded + 1
               /\ pc' = IF loaded + 1 = Len(indexList) THEN "helpers" ELSE pc
    /\ UNCHANGED <<indexList, pos, pages, out, resolver, call, arg, res>>

\* One round of the preload loop: the row's file is fetched as raw and
\* normalized; a rejection of the fetch or a throw of normalizeBook rejects
\* main(), and the process exits with status 1.  After the last row the
\* helper pages are next.
LoadBook(raw) ==
    /\ pc = "load"
    /\ loaded < Len(indexList)
    /\ IF raw = FetchRejected
       THEN /\ pc' = "failed"
            /\ UNCHANGED <<booksMap, countsMap, loaded>>
       ELSE LET row == indexList[loaded + 1]
                norm == normalizeBook(row.name, raw)
            IN IF norm.t = "throw"
               THEN /\ pc' = "failed"
                    /\ UNCHANGED <<booksMap, countsMap, loaded>>
               ELSE /\ booksMap' = Put(booksMap, row.slug, norm)
                    /\ countsMap' = Put(countsMap, row.slug, CountsOf(norm))
                    /\ loaded' = loaded + 1
                    /\ pc' = IF loaded + 1 = Len(indexList) THEN "helpers" ELSE pc
    /\ UNCHANGED <<indexList, pos, pages, out, resolver, call, arg, res>>

\* One awaited fs.writeFile of the "Helper pages" loop: the next book or
\* chapter index page is written.  The verse loops start after the last.
WriteHelperPages ==
    /\ pc = "helpers"
    /\ LET files == HelperPages(indexList, booksMap, 1)
           n == Len(out) + 1
       IN /\ out' = Append(out, files[n])
          /\ IF n = Len(files)
             THEN /\ pc' = "verses"
                  /\ pos' = Pos(RowFrom(indexList, booksMap, 1), 1, 1)
             ELSE UNCHANGED <<pc, pos>>
    /\ UNCHANGED <<indexList, booksMap, countsMap, loaded, pages, resolver, call, arg, res>>

\* One round of the innermost verse loop: prev and next are computed, then
\* the page is written.  A throw of prevRef or nextRef rejects main().
EmitVerse ==
    /\ pc = "verses"
    /\ pos.row <= Len(indexList)
    /\ LET slug == indexList[pos.row].slug
           ch == ChNums(booksMap[slug])[pos.ci]
           p == prevRef(idxOrder, slug, ch, pos.v, booksMap)
           n == nextRef(idxOrder, slug, ch, pos.v, booksMap)
       IN IF p.t = "throw" \/ n.t = "throw"
          THEN /\ pc' = "failed"
               /\ UNCHANGED <<pages, pos>>
          ELSE /\ pages' = Append(pages, [slug |-> slug, chapter |-> ch, verse |-> pos.v,
                                          prev |-> p, next |-> n])
               /\ pos' = Advance(indexList, booksMap, pos)
               /\ UNCHANGED pc
    /\ UNCHANGED <<indexList, booksMap, countsMap, loaded, out, resolver, call, arg, res>>

\* The files main writes after the verse loops, in the order written: the
\* root redirect, robots.txt, the sitemaps and CNAME.
FinalFiles ==
    <<[file |-> "index.html", url |-> FirstUrl(urls)], [file |-> "robots.txt"]>>
    \o SitemapFiles(Len(urls))
    \o <<[file |-> "CNAME"]>>

\* The verse loops are over.  One awaited fs.writeFile of the rest of main:
\* the next of the final files is written; main() returns after CNAME.
Finish ==
    /\ pc = "verses"
    /\ pos.row > Len(indexList)
    /\ LET n == Len(out) - Len(HelperPages(indexList, booksMap, 1)) + 1
       IN /\ out' = Append(out, FinalFiles[n])
          /\ pc' = IF n = Len(FinalFiles) THEN "done" ELSE pc
    /\ UNCHANGED <<indexList, booksMap, countsMap, loaded, pos, pages, resolver, call, arg, res>>

Next ==
    \/ \E raw \in RawBooks \cup {FetchRejected} : LoadBook(raw)
    \/ WriteHelperPages
    \/ EmitVerse
    \/ Finish

Spec == Init /\ [][Next]_vars

-----------------------------------------------------------------------------
(* main from its start *)


\* The parsed bodies Books.json is fetched as: ["Genesis"], ["Exodus"],
\* [null], [], {"books":[]} and null.
BooksBodies ==
    {ManifestBody(m) : m \in {<<Genesis>>, <<Exodus>>}}
    \cup {Arr(<<JNull>>), Arr(<<>>), Obj(<<<<"books", Arr(<<>>)>>>>), JNull}

\* main() calls findBaseAndBooksJson().
InitResolve ==
    /\ pc = "resolve"
    /\ indexList = <<>>
    /\ booksMap = EmptyMap
    /\ countsMap = EmptyMap
    /\ loaded = 0
    /\ pos = Pos(0, 0, 0)
    /\ pages = <<>>
    /\ out = <<>>
    /\ resolver = Resolving(1, 1, 0, <<>>, <<>>, Message("", NoUrl), NoFetch, 0)
    /\ PureIdle

\* One attempt of the fetch of Books.json at the candidate at hand, meeting
\* o, and what findBaseAndBooksJson and main do until the next fetch: with a
\* manifest main builds indexList and starts the preload loop; a throw of
\* findBaseAndBooksJson rejects main(), and the process exits with status 1.
Attempt(o) ==
    /\ pc = "resolve"
    /\ resolver.pc = "fetch"
    /\ resolver' = ResolverStep(resolver, o)
    /\ CASE resolver'.pc = "returned" ->
              /\ indexList' = IndexListOf([i \in 1..Len(o.v.a) |-> NameChars(o.v.a[i])])
              /\ pc' = "load"
         [] resolver'.pc = "threw" ->
              /\ pc' = "failed"
              /\ UNCHANGED indexList
         [] OTHER -> UNCHANGED <<pc, indexList>>
    /\ UNCHANGED <<booksMap, countsMap, loaded, pos, pages, out, call, arg, res>>

NextResolve ==
    \/ \E o \in FetchOutcomes(BooksBodies) : Attempt(o)
    \/ \E raw \in RawBooks \cup {FetchRejected} : LoadBook(raw)
    \/ WriteHelperPages
    \/ EmitVerse
    \/ Finish

SpecResolve == InitResolve /\ [][NextResolve]_vars

\* Every fetch() settles, and the continuation of an awaited promise that has
\* settled runs.
SpecResolveFair ==
    /\ InitResolve
    /\ [][NextResolve]_vars
    /\ WF_vars(\E o \in FetchOutcomes(BooksBodies) : Attempt(o))

-----------------------------------------------------------------------------
(* normalizeBook applied to one input *)

\* The most chapters of a generated book, and the most verses of a chapter.
MaxChapters == 2
MaxVerses == 2

\* The elements of a generated verse array: a bare text, and a verse object
\* that carries its own verse number.
VerseItems == {Str("A"), Obj(<<<<"verse", Num(1)>>, <<"text", Str("B")>>>>)}

VerseArrays == SeqsUpTo(VerseItems, MaxVerses)

\* A logical book L is the verse array of chapter 1, of chapter 2, ...

\* { chapters: [ { chapter: 1, verses: L[1] }, ... ] }
Shape1Of(L) == Obj(<<<<"chapters", Arr([i \in 1..Len(L) |-> ChapterObj(i, L[i])])>>>>)

\* { chapters: { "1": L[1], ... } }
Shape2Of(L) == Obj(<<<<"chapters", Obj([i \in 1..Len(L) |-> <<DecStr(i), Arr(L[i])>>])>>>>)

\* [ L[1], ... ]
Shape3Of(L) == Arr([i \in 1..Len(L) |-> Arr(L[i])])

\* {"chapters":[{"chapter":"2","verseCount":9,
\*               "verses":[{"num":"1","t":"D"},{"v":1},{"verse":3,"text":null},null]}]}
NumberedVersesDoc ==
    Obj(<<<<"chapters", Arr(<<Obj(<<
        <<"chapter", Str("2")>>, <<"verseCount", Num(9)>>,
        <<"verses", Arr(<<Obj(<<<<"num", Str("1")>>, <<"t", Str("D")>>>>),
                          Obj(<<<<"v", Num(1)>>>>),
                          Obj(<<<<"verse", Num(3)>>, <<"text", JNull>>>>),
                          JNull>>)>> >>)>>)>>>>)

\* Inputs of no accepted shape, and inputs with the irregularities the
\* normalizer tolerates or trips over.
OtherInputs ==
    RawBooks \cup
    { Num(5), Str("abc"), Arr(<<>>), Arr(<<Num(1), Num(2)>>), Obj(<<>>),
      Obj(<<<<"chapters", Str("x")>>>>),
      Obj(<<<<"chapters", Num(3)>>>>),
      Obj(<<<<"chapters", JNull>>>>),
      Obj(<<<<"book", Str("Genesis")>>>>),
      \* [["A"],null]
      Arr(<<Arr(<<Str("A")>>), JNull>>),
      \* {"chapters":{"1":{"1":"A","3":"B"},"2":null}}
      Obj(<<<<"chapters", Obj(<<<<"1", Obj(<<<<"1", Str("A")>>, <<"3", Str("B")>>>>)>>,
                                <<"2", JNull>>>>)>>>>),
      NumberedVersesDoc,
      \* {"chapters":{"03":["A"]}}
      Obj(<<<<"chapters", Obj(<<<<"03", Arr(<<Str("A")>>)>>>>)>>>>),
      \* {"chapters":{"\ufeff3":["A"],"\u16804\u1680":["B"]}}
      Obj(<<<<"chapters", Obj(<<<<"﻿3", Arr(<<Str("A")>>)>>,
                                <<" 4 ", Arr(<<Str("B")>>)>>>>)>>>>),
      \* {"chapters":{" 3":["A"],"3":["B","C"]}}
      Obj(<<<<"chapters", Obj(<<<<" 3", Arr(<<Str("A")>>)>>,
                                <<"3", Arr(<<Str("B"), Str("C")>>)>>>>)>>>>),
      \* {"chapters":[{"chapter":[2],"verses":["A"]}]}
      Obj(<<<<"chapters", Arr(<<Obj(<<<<"chapter", Arr(<<Num(2)>>)>>,
                                      <<"verses", Arr(<<Str("A")>>)>>>>)>>)>>>>),
      \* [[{"verse":[7],"text":["x","y"]}]]
      Arr(<<Arr(<<Obj(<<<<"verse", Arr(<<Num(7)>>)>>,
                        <<"text", Arr(<<Str("x"), Str("y")>>)>>>>)>>)>>),
      \* {"chapters":{"1":{"__proto__":"A","2":"B"}}}
      Obj(<<<<"chapters", Obj(<<<<"1", Obj(<<<<"__proto__", Str("A")>>,
                                             <<"2", Str("B")>>>>)>>>>)>>>>),
      \* [[{"verse":"__proto__","text":"A"},"B"]]
      Arr(<<Arr(<<Obj(<<<<"verse", Str("__proto__")>>, <<"text", Str("A")>>>>),
                  Str("B")>>)>>),
      \* {"chapters":[{"chapter":"\u000b3\u00a0","verses":["A"]},
      \*              {"chapter":"1e-324","verses":["B"]},
      \*              {"chapter":"1.9999999999999999","verses":[]}]}
      Obj(<<<<"chapters",
              Arr(<<Obj(<<<<"chapter", Str("3 ")>>, <<"verses", Arr(<<Str("A")>>)>>>>),
                    Obj(<<<<"chapter", Str("1e-324")>>, <<"verses", Arr(<<Str("B")>>)>>>>),
                    Obj(<<<<"chapter", Str("1.9999999999999999")>>,
                          <<"verses", Arr(<<>>)>>>>)>>)>>>>),
      \* {"chapters":{"1":{"1":["A"]}}}
      Obj(<<<<"chapters", Obj(<<<<"1", Obj(<<<<"1", Arr(<<Str("A")>>)>>>>)>>>>)>>>>),
      \* {"chapters":[{"chapter":1,"verses":"abc"},{"chapter":1},5]}
      Obj(<<<<"chapters", Arr(<<Obj(<<<<"chapter", Num(1)>>, <<"verses", Str("abc")>>>>),
                                Obj(<<<<"chapter", Num(1)>>>>),
                                Num(5)>>)>>>>) }

\* A logical book in one of the three shapes.
ShapeOf(shape, L) ==
    CASE shape = 1 -> Shape1Of(L)
      [] shape = 2 -> Shape2Of(L)
      [] shape = 3 -> Shape3Of(L)

\* main is not running while a pure function is applied.
MainIdle ==
    /\ pc = "idle"
    /\ indexList = <<>>
    /\ booksMap = EmptyMap
    /\ countsMap = EmptyMap
    /\ loaded = 0
    /\ pos = Pos(0, 0, 0)
    /\ pages = <<>>
    /\ out = <<>>
    /\ resolver = [pc |-> "idle"]

mainVars == <<pc, indexList, booksMap, countsMap, loaded, pos, pages, out, resolver>>

\* normalizeBook is applied to every logical book in each of the three shapes
\* (of |-> the logical book), and to the other inputs (shape |-> 0).
InitNorm ==
    /\ MainIdle
    /\ call = "normalizeBook"
    /\ res = Pending
    /\ \E n \in {Genesis, Exodus} :
         \/ \E k \in 0..MaxChapters : \E L \in [1..k -> VerseArrays] :
              \E shape \in 1..3 :
                arg = [name |-> n, data |-> ShapeOf(shape, L), shape |-> shape, of |-> L]
         \/ \E d \in OtherInputs :
              arg = [name |-> n, data |-> d, shape |-> 0, of |-> <<>>]

CallNormalizeBook ==
    /\ call = "normalizeBook"
    /\ res = Pending
    /\ res' = normalizeBook(arg.name, arg.data)
    /\ UNCHANGED <<mainVars, call, arg>>

NextNorm == CallNormalizeBook

SpecNorm == InitNorm /\ [][NextNorm]_vars

-----------------------------------------------------------------------------
(* slugify applied to one name *)

\* The longest generated name.
MaxLen == 3

SlugAlphabet == {"a", "B", "1", " ", "\n", "-", "!", "É", "Α", "﻿"}

SlugNames == SeqsUpTo(SlugAlphabet, MaxLen) \cup BookNames

\* A returned value.
Ret(v) == [t |-> "ret", v |-> v]

InitSlug ==
    /\ MainIdle
    /\ call = "slugify"
    /\ arg \in SlugNames
    /\ res = Pending

CallSlugify ==
    /\ call = "slugify"
    /\ res = Pending
    /\ res' = Ret(slugify(arg))
    /\ UNCHANGED <<mainVars, call, arg>>

NextSlug == CallSlugify

SpecSlug == InitSlug /\ [][NextSlug]_vars

-----------------------------------------------------------------------------
(* The "Sitemaps" block applied to a list of n URLs *)

\* The most multiples of CHUNK a generated list length lies near, and how far
\* from a multiple it lies.
MaxParts == 3
MaxSlack == 8

\* The lengths of the generated URL lists: around every multiple of CHUNK.
UrlCounts ==
    {n \in {k * CHUNK + d : k \in 0..MaxParts, d \in (0 - MaxSlack)..MaxSlack} : n >= 0}
    \cup {120000}

InitSitemap ==
    /\ MainIdle
    /\ call = "sitemaps"
    /\ arg \in UrlCounts
    /\ res = Pending

\* One file of the block is written at a step (the block awaits every
\* writeFile); out holds the files written so far, and the block is over
\* after the last one.
WriteSitemaps ==
    /\ call = "sitemaps"
    /\ res = Pending
    /\ out' = Append(out, SitemapFiles(arg)[Len(out) + 1])
    /\ res' = IF Len(out) + 1 = Len(SitemapFiles(arg))
              THEN Ret(Append(out, SitemapFiles(arg)[Len(out) + 1]))
              ELSE Pending
    /\ UNCHANGED <<pc, indexList, booksMap, countsMap, loaded, pos, pages, resolver,
                   call, arg>>

NextSitemap == WriteSitemaps

SpecSitemap == InitSitemap /\ [][NextSitemap]_vars

-----------------------------------------------------------------------------
(* prevRef and nextRef applied to one reference *)

\* The largest chapter number and the largest verse count of a generated book.
MaxCh == 3
MaxVc == 2

\* The chapter keys of a generated book's JSON, in its insertion order: "x"
\* is a key that spells no number.
NavKeys == <<"x">> \o [i \in 1..MaxCh |-> DecStr(MaxCh + 1 - i)]

\* { chapters: { key: [ "A", ... ], ... } } with count[k] verses under NavKeys[k],
\* for the keys k in K.
NavDoc(K, count) ==
    LET ks == SelectSeq([i \in 1..Len(NavKeys) |-> i], LAMBDA k : k \in K)
    IN Obj(<<<<"chapters",
              Obj([j \in 1..Len(ks) |->
                     <<NavKeys[ks[j]], Arr([v \in 1..count[ks[j]] |-> Str("A")])>>])>>>>)

\* The book after the generated one, when there is one.
NavNeighbours == {Arr(<<Arr(<<Str("C")>>)>>), Obj(<<<<"chapters", Arr(<<>>)>>>>)}

\* The corpora of the book alone, and of the book followed by a neighbour.
NavCorpora(book) ==
    {[idxOrder |-> <<slugify(Genesis)>>,
      booksMap |-> Put(EmptyMap, slugify(Genesis), book)]}
    \cup
    {[idxOrder |-> <<slugify(Genesis), slugify(Exodus)>>,
      booksMap |-> Put(Put(EmptyMap, slugify(Genesis), book),
                       slugify(Exodus), normalizeBook(Exodus, e))] :
        e \in NavNeighbours}

\* A corpus whose first book is normalized from a generated document, and a
\* reference into that book: one of its chapters, and a verse from 0 to the
\* chapter's verse count.
InitNav ==
    /\ MainIdle
    /\ call = "nav"
    /\ res = Pending
    /\ \E K \in SUBSET (1..Len(NavKeys)) : \E count \in [K -> 0..MaxVc] :
         \E book \in {normalizeBook(Genesis, NavDoc(K, count))} :
           \E c \in NavCorpora(book) : \E ch \in DOMAIN book.chapters :
             \E v \in 0..book.chapters[ch].verseCount :
               arg = [idxOrder |-> c.idxOrder, booksMap |-> c.booksMap,
                      slug |-> c.idxOrder[1], chapter |-> ch, verse |-> v]

CallPrevRef ==
    /\ call = "nav"
    /\ call' = "prevRef"
    /\ res' = prevRef(arg.idxOrder, arg.slug, arg.chapter, arg.verse, arg.booksMap)
    /\ UNCHANGED <<mainVars, arg>>

CallNextRef ==
    /\ call = "nav"
    /\ call' = "nextRef"
    /\ res' = nextRef(arg.idxOrder, arg.slug, arg.chapter, arg.verse, arg.booksMap)
    /\ UNCHANGED <<mainVars, arg>>

NextNav == CallPrevRef \/ CallNextRef

SpecNav == InitNav /\ [][NextNav]_vars

-----------------------------------------------------------------------------
(* Navigation over the emitted verse pages *)

\* The chapter numbers of a book: its chapter keys that are numbers.
ChapterNumbers(book) == {k.n : k \in {x \in DOMAIN book.chapters : x.t = "num"}}

\* The reference a verse page was emitted for.
PageRef(p) == Ref(p.slug, p.chapter, p.verse)

\* The position of a page's book in manifest order.
RowOf(p) == CHOOSE i \in 1..Len(indexList) : indexList[i].slug = p.slug

\* The page is at verse 1 of the lowest-numbered chapter of the first book.
IsFirstVerse(p) ==
    /\ RowOf(p) = 1
    /\ p.chapter.t = "num"
    /\ \A n \in ChapterNumbers(booksMap[p.slug]) : p.chapter.n <= n
    /\ p.verse = 1

\* The page is at the last verse of the highest-numbered chapter of its book.
IsLastVerseOfBook(p) ==
    /\ p.chapter.t = "num"
    /\ \A n \in ChapterNumbers(booksMap[p.slug]) : n <= p.chapter.n
    /\ p.verse = booksMap[p.slug].chapters[p.chapter].verseCount

\* C1: for every reference r a verse page is emitted for, if nextRef(r) is
\* not null then prevRef(nextRef(r)) is r, and if prevRef(r) is not null then
\* nextRef(prevRef(r)) is r.
C1_RoundTrip ==
    \A i \in 1..Len(pages) :
        LET p == pages[i]
        IN /\ p.next # JNull =>
                prevRef(idxOrder, p.next.slug, p.next.chapter, p.next.verse, booksMap)
                    = PageRef(p)
           /\ p.prev # JNull =>
                nextRef(idxOrder, p.prev.slug, p.prev.chapter, p.prev.verse, booksMap)
                    = PageRef(p)

\* C2: prevRef returns null for, and only for, verse 1 of the lowest-numbered
\* chapter of the first book of the manifest; nextRef returns null for, and
\* only for, the last verse (verse = verseCount) of the highest-numbered
\* chapter of the last book of the manifest.
C2_Boundaries ==
    \A i \in 1..Len(pages) :
        LET p == pages[i]
        IN /\ (p.prev = JNull) <=> IsFirstVerse(p)
           /\ (p.next = JNull) <=> (RowOf(p) = Len(indexList) /\ IsLastVerseOfBook(p))

\* C4: at the last verse of the highest-numbered chapter of a book that is
\* not last in the manifest, nextRef returns verse 1 of the smallest chapter
\* number of the book that follows it in the manifest.
C4_CrossBook ==
    \A i \in 1..Len(pages) :
        LET p == pages[i]
        IN (RowOf(p) < Len(indexList) /\ IsLastVerseOfBook(p)) =>
              LET B == indexList[RowOf(p) + 1].slug
              IN \E c \in ChapterNumbers(booksMap[B]) :
                    /\ \A n \in ChapterNumbers(booksMap[B]) : c <= n
                    /\ p.next = Ref(B, Num(c), 1)

\* C5: every non-null result of prevRef and nextRef has an integer verse that
\* is at least 1 and a chapter that is not undefined.
C5_DefinedRef ==
    \A i \in 1..Len(pages) :
        \A r \in {pages[i].prev, pages[i].next} \ {JNull} :
            r.verse \in Nat \ {0} /\ r.chapter # Undefined

-----------------------------------------------------------------------------
(* nextRef within a book *)

\* C3: while verse < verseCount(b, c), nextRef returns (b, c, verse + 1); at
\* verse = verseCount(b, c) of a chapter c that is not the numerically
\* largest of b, it returns (b, c', 1) with c' the smallest chapter number
\* of b greater than c.
C3_CrossChapter ==
    call = "nextRef" =>
        LET book == arg.booksMap[arg.slug]
            vc == book.chapters[arg.chapter].verseCount
            larger == {n \in ChapterNumbers(book) :
                         arg.chapter.t = "num" /\ n > arg.chapter.n}
        IN /\ arg.verse < vc => res = Ref(arg.slug, arg.chapter, arg.verse + 1)
           /\ (arg.verse = vc /\ larger # {}) =>
                 \E c \in larger :
                    /\ \A n \in larger : c <= n
                    /\ res = Ref(arg.slug, Num(c), 1)

\* nextRef has stepped from the last verse of chapter 1 over a gap to
\* chapter 3 of a book that has no chapter 2.
C3_Witness ==
    /\ call = "nextRef"
    /\ arg.chapter = Num(1)
    /\ arg.verse = 2
    /\ arg.booksMap[arg.slug].chapters[Num(1)].verseCount = 2
    /\ Num(2) \notin DOMAIN arg.booksMap[arg.slug].chapters
    /\ res = Ref(arg.slug, Num(3), 1)

-----------------------------------------------------------------------------
(* normalizeBook *)

Returned == res # Pending

\* C6: a logical book with chapters 1..n supplied in the array-of-chapter-
\* objects shape, in the chapters-mapping shape and as a bare array of verse
\* arrays is normalized to one and the same book.
C6_ShapeEquivalence ==
    (call = "normalizeBook" /\ Returned /\ arg.shape # 0 /\ Len(arg.of) >= 1) =>
        /\ res.t = "book"
        /\ normalizeBook(arg.name, Shape1Of(arg.of)) = res
        /\ normalizeBook(arg.name, Shape2Of(arg.of)) = res
        /\ normalizeBook(arg.name, Shape3Of(arg.of)) = res

\* A bare array of two chapters has been normalized to a book with the
\* chapters 1 and 2, chapter 2 with two verses.
C6_Witness ==
    /\ call = "normalizeBook"
    /\ arg.shape = 3
    /\ Len(arg.of) = 2
    /\ res.t = "book"
    /\ DOMAIN res.chapters = {Num(1), Num(2)}
    /\ res.chapters[Num(2)].verseCount = 2
    /\ res = normalizeBook(arg.name, Shape1Of(arg.of))

\* C7: normalizeBook fails with an error that names the book for every input
\* that matches none of the three top-level shapes, and returns a book for
\* every input that matches one of them.
C7_ShapeErrors ==
    (call = "normalizeBook" /\ Returned) =>
        IF IsShape1(arg.data) \/ IsShape2(arg.data) \/ IsShape3(arg.data)
        THEN res.t = "book"
        ELSE res.t = "throw" /\ res.name = arg.name

\* C8: in every book normalizeBook returns, the verseCount of every chapter
\* is the number of distinct verse keys of the chapter's verses map.
C8_VerseCount ==
    (call = "normalizeBook" /\ Returned /\ res.t = "book") =>
        \A c \in DOMAIN res.chapters :
            res.chapters[c].verseCount = Cardinality(DOMAIN res.chapters[c].verses)

\* A chapter given with verseCount 9 and four verse elements, two of them
\* numbered 1, has been normalized to the three verses 1, 3 and 4.
C8_Witness ==
    /\ call = "normalizeBook"
    /\ arg.data = NumberedVersesDoc
    /\ res.t = "book"
    /\ res.chapters[Num(2)].verseCount = 3
    /\ DOMAIN res.chapters[Num(2)].verses = {"1", "3", "4"}

-----------------------------------------------------------------------------
(* slugify *)

\* [a-z0-9-]
IsSlugChar(c) == (\E i \in 1..Len(Lower) : Lower[i] = c) \/ c \in Digits \/ c = "-"

\* C10: slugify is idempotent, its output has only characters of [a-z0-9-],
\* and slugify("Song of Solomon") is "song-of-solomon".
C10_Slugify ==
    (call = "slugify" /\ Returned) =>
        /\ slugify(res.v) = res.v
        /\ \A i \in 1..Len(res.v) : IsSlugChar(res.v[i])
        /\ arg = SongOfSolomon =>
              res.v = <<"s", "o", "n", "g", "-", "o", "f", "-",
                        "s", "o", "l", "o", "m", "o", "n">>

-----------------------------------------------------------------------------
(* The loaded corpus *)

\* The preload loop has handled every row of the manifest.
Preloaded == pc \in {"helpers", "verses", "done"}

\* C11: the distinct book names of a manifest have distinct slugs, so that
\* booksMap holds one entry per manifest name and idxOrder has no element
\* twice.
C11_UniqueSlugs ==
    (Preloaded /\ \A i, j \in 1..Len(indexList) :
                     i # j => indexList[i].name # indexList[j].name) =>
        /\ \A i, j \in 1..Len(idxOrder) : i # j => idxOrder[i] # idxOrder[j]
        /\ Cardinality(DOMAIN booksMap) = Len(indexList)

-----------------------------------------------------------------------------
(* Sitemaps *)

\* C12: for N > CHUNK URLs the files written are the chunks sitemap-1 ..
\* sitemap-k with k = ceil(N / CHUNK), then the index; each chunk holds at
\* most CHUNK URLs, the chunks follow one another through the URL list from
\* its first to its last element, and the index names each chunk once.
C12_ChunkPartition ==
    (call = "sitemaps" /\ Returned /\ arg > CHUNK) =>
        LET files == res.v
            k == Len(files) - 1
        IN /\ k >= 1 /\ k * CHUNK >= arg /\ (k - 1) * CHUNK < arg
           /\ \A i \in 1..k :
                 /\ files[i].file = "sitemap-n.xml" /\ files[i].n = i
                 /\ files[i].kind = "urlset"
                 /\ files[i].to - files[i].from <= CHUNK
                 /\ files[i].from = (IF i = 1 THEN 0 ELSE files[i - 1].to)
           /\ files[k].to = arg
           /\ files[k + 1].file = "sitemap.xml"
           /\ files[k + 1].kind = "sitemapindex"
           /\ files[k + 1].items = [i \in 1..k |-> i]

\* 120,000 URLs have been written as three chunks and one index.
C12_Witness ==
    /\ call = "sitemaps"
    /\ arg = 120000
    /\ Returned
    /\ Len(res.v) = 4
    /\ res.v[3].from = 100000 /\ res.v[3].to = 120000
    /\ res.v[4].kind = "sitemapindex"

\* C13: sitemap.xml is a sitemap index if and only if there are more than
\* CHUNK URLs; with at most CHUNK URLs it is the only file written, a URL
\* set of the whole list.
C13_IndexOnlyAboveCap ==
    (call = "sitemaps" /\ Returned) =>
        /\ (\E i \in 1..Len(res.v) : res.v[i].kind = "sitemapindex") <=> arg > CHUNK
        /\ arg <= CHUNK => res.v = <<UrlSetFile("sitemap.xml", 0, 0, arg)>>

\* Exactly CHUNK URLs have been written as the single URL set.
C13_Witness ==
    /\ call = "sitemaps"
    /\ arg = CHUNK
    /\ Returned
    /\ Len(res.v) = 1
    /\ res.v[1].kind = "urlset" /\ res.v[1].to - res.v[1].from = CHUNK

-----------------------------------------------------------------------------
(* Verse pages *)

RECURSIVE VerseTotal(_, _)
\* The sum of verseCount over the chapters keys of a book.
VerseTotal(book, keys) ==
    IF keys = {} THEN 0
    ELSE LET c == CHOOSE x \in keys : TRUE
         IN book.chapters[c].verseCount + VerseTotal(book, keys \ {c})

RECURSIVE CorpusTotal(_)
\* The sum of verseCount over the chapters of the first n rows' books.
CorpusTotal(n) ==
    IF n = 0 THEN 0
    ELSE LET b == booksMap[indexList[n].slug]
         IN VerseTotal(b, DOMAIN b.chapters) + CorpusTotal(n - 1)

\* The verse pages written for chapter c of the book with the slug.
PagesOf(slug, c) == {i \in 1..Len(pages) : pages[i].slug = slug /\ pages[i].chapter = c}

\* Page i comes before page j in the order of books by manifest row,
\* chapters by number and verses by number.
InOrder(i, j) ==
    \/ RowOf(pages[i]) < RowOf(pages[j])
    \/ /\ RowOf(pages[i]) = RowOf(pages[j])
       /\ \/ pages[i].chapter.n < pages[j].chapter.n
          \/ pages[i].chapter = pages[j].chapter /\ pages[i].verse < pages[j].verse

\* C14: when the build is done, the verse pages written are as many as the
\* sum of verseCount over all chapters of all rows; and, when no two rows of
\* the manifest have one slug, the pages written for a chapter are as many as
\* its verseCount, and the pages (and so the URLs collected with them) of
\* chapters filed under numbers are in the order of manifest row, chapter
\* number and verse number.
C14_OnePagePerVerse ==
    pc = "done" =>
        /\ Len(pages) = CorpusTotal(Len(indexList))
        /\ (\A i, j \in 1..Len(idxOrder) : i # j => idxOrder[i] # idxOrder[j]) =>
              /\ \A r \in 1..Len(indexList) :
                    \A c \in DOMAIN booksMap[indexList[r].slug].chapters :
                        Cardinality(PagesOf(indexList[r].slug, c))
                            = booksMap[indexList[r].slug].chapters[c].verseCount
              /\ \A i \in 1..(Len(pages) - 1) :
                    (pages[i].chapter.t = "num" /\ pages[i + 1].chapter.t = "num")
                        => InOrder(i, i + 1)

RECURSIVE PageTotal(_, _)
\* The sum of verseCount || 1 over the chapters keys of a book.
PageTotal(book, keys) ==
    IF keys = {} THEN 0
    ELSE LET c == CHOOSE x \in keys : TRUE
         IN (IF book.chapters[c].verseCount = 0 THEN 1 ELSE book.chapters[c].verseCount)
            + PageTotal(book, keys \ {c})

RECURSIVE CorpusPageTotal(_)
\* The sum of verseCount || 1 over the chapters of the first n rows' books.
CorpusPageTotal(n) ==
    IF n = 0 THEN 0
    ELSE LET b == booksMap[indexList[n].slug]
         IN PageTotal(b, DOMAIN b.chapters) + CorpusPageTotal(n - 1)

\* The places in pages of the verse pages written in the round of manifest
\* row r, if each chapter is written as verseCount || 1 pages.
RowPages(r) == (CorpusPageTotal(r - 1) + 1)..CorpusPageTotal(r)

\* C14, amended: when the build is done, the verse pages are written row by
\* row in manifest order; the pages written in the round of a row are of that
\* row's book, and for each chapter of it they are the verses 1..verseCount,
\* or verse 1 alone when verseCount is 0, once each; the total is the sum of
\* these numbers over all chapters of all rows; within a row the chapters
\* filed under numbers come in ascending order, a chapter filed under NaN
\* after them, and the verses of a chapter in ascending order.  The URLs are
\* collected one per page, with the page, and so in the order of the pages.
C14_OnePagePerVerseOrOne ==
    pc = "done" =>
        /\ Len(pages) = CorpusPageTotal(Len(indexList))
        /\ \A r \in 1..Len(indexList) :
              /\ \A i \in RowPages(r) : pages[i].slug = indexList[r].slug
              /\ \A c \in DOMAIN booksMap[indexList[r].slug].chapters :
                    LET vc == booksMap[indexList[r].slug].chapters[c].verseCount
                        at == {i \in RowPages(r) : pages[i].chapter = c}
                    IN /\ {pages[i].verse : i \in at} = 1..(IF vc = 0 THEN 1 ELSE vc)
                       /\ Cardinality(at) = (IF vc = 0 THEN 1 ELSE vc)
              /\ \A i \in RowPages(r) : (i + 1) \in RowPages(r) =>
                    \/ /\ pages[i].chapter.t = "num" /\ pages[i + 1].chapter.t = "num"
                       /\ pages[i].chapter.n < pages[i + 1].chapter.n
                    \/ pages[i].chapter.t = "num" /\ pages[i + 1].chapter = NaN
                    \/ /\ pages[i].chapter = pages[i + 1].chapter
                       /\ pages[i].verse < pages[i + 1].verse

\* A build is done whose corpus has a chapter without verses, written as
\* one page, and a chapter of two verses, written as two pages.
C14_Witness ==
    /\ pc = "done"
    /\ \E s \in DOMAIN booksMap : \E c \in DOMAIN booksMap[s].chapters :
          booksMap[s].chapters[c].verseCount = 0 /\ Cardinality(PagesOf(s, c)) = 1
    /\ \E s \in DOMAIN booksMap : \E c \in DOMAIN booksMap[s].chapters :
          booksMap[s].chapters[c].verseCount = 2 /\ Cardinality(PagesOf(s, c)) = 2

-----------------------------------------------------------------------------
(* The root redirect *)

\* The file of out with the name.
FileNamed(name) == out[CHOOSE i \in 1..Len(out) : out[i].file = name]

\* C15: when the build is done, the root redirect points at the canonical
\* URL of verse 1 of the lowest-numbered chapter of the first book of the
\* manifest, and so at a book of the corpus.
C15_RootRedirect ==
    pc = "done" =>
        LET first == indexList[1].slug
            target == FileNamed("index.html").url
        IN /\ \E i \in 1..Len(idxOrder) : idxOrder[i] = target.slug
           /\ \E c \in ChapterNumbers(booksMap[first]) :
                 /\ \A n \in ChapterNumbers(booksMap[first]) : c <= n
                 /\ target = canonicalUrl(first, Num(c), 1)

-----------------------------------------------------------------------------
(* End to end *)

\* The build of the corpus [Genesis: one chapter "A", "B"; Exodus: one
\* chapter "C"] is done.
ScenarioDone ==
    /\ pc = "done"
    /\ indexList = IndexListOf(<<Genesis, Exodus>>)
    /\ booksMap[slugify(Genesis)]
         = normalizeBook(Genesis, Arr(<<Arr(<<Str("A"), Str("B")>>)>>))
    /\ booksMap[slugify(Exodus)] = normalizeBook(Exodus, Arr(<<Arr(<<Str("C")>>)>>))

\* C16: the build of that corpus writes exactly the three verse pages Genesis
\* 1:1, Genesis 1:2 and Exodus 1:1; next of Genesis 1:2 is Exodus 1:1 and
\* prev of Exodus 1:1 is Genesis 1:2; the root redirect points at the URL of
\* Genesis 1:1; sitemap.xml is a URL set of exactly three entries.
C16_EndToEnd ==
    ScenarioDone =>
        LET g == slugify(Genesis)
            e == slugify(Exodus)
        IN /\ [i \in 1..Len(pages) |-> PageRef(pages[i])]
                = <<Ref(g, Num(1), 1), Ref(g, Num(1), 2), Ref(e, Num(1), 1)>>
           /\ pages[2].next = Ref(e, Num(1), 1)
           /\ pages[3].prev = Ref(g, Num(1), 2)
           /\ FileNamed("index.html").url = canonicalUrl(g, Num(1), 1)
           /\ FileNamed("sitemap.xml") = UrlSetFile("sitemap.xml", 0, 0, 3)
           /\ \A i \in 1..Len(out) : out[i].file # "sitemap-n.xml"

\* The build of that corpus is done, loaded from a file of the first shape
\* and a bare array.
C16_Witness ==
    /\ ScenarioDone
    /\ Len(pages) = 3
    /\ pages[3].prev = Ref(slugify(Genesis), Num(1), 2)
    /\ FileNamed("CNAME") = [file |-> "CNAME"]

-----------------------------------------------------------------------------
(* Navigation and emission *)

\* The references of the verse pages written.
PageRefs == {PageRef(pages[i]) : i \in 1..Len(pages)}

\* C23: the next of each verse page written is the page written after it and
\* the prev of that page is the page before it, and, when the build is done,
\* every prev and next that is not null is a verse page the build has
\* written; a build whose books are all loaded writes its pages to the end.
C23_NavigationChain ==
    /\ \A i \in 1..(Len(pages) - 1) :
          /\ pages[i].next = PageRef(pages[i + 1])
          /\ pages[i + 1].prev = PageRef(pages[i])
    /\ pc = "done" =>
          \A i \in 1..Len(pages) :
             /\ pages[i].prev # JNull => pages[i].prev \in PageRefs
             /\ pages[i].next # JNull => pages[i].next \in PageRefs
    /\ loaded = Len(indexList) => pc # "failed"

-----------------------------------------------------------------------------
(* The counts map *)

\* The key of countsMap[slug] for the chapter key ch.
CountsKey(ch) == JSString(ch)

\* C22: countsMap has the slugs of booksMap; for each, it has exactly the
\* chapters of the book, and the count of a chapter is its verseCount, also
\* when verseCount is 0.
C22_CountsAreVerseCounts ==
    /\ DOMAIN countsMap = DOMAIN booksMap
    /\ \A s \in DOMAIN booksMap :
          /\ DOMAIN countsMap[s] = {CountsKey(ch) : ch \in DOMAIN booksMap[s].chapters}
          /\ \A ch \in DOMAIN booksMap[s].chapters :
                countsMap[s][CountsKey(ch)] = booksMap[s].chapters[ch].verseCount

\* C22, amended: countsMap has the slugs of booksMap; for each, it has
\* exactly the chapters of the book, and the count of a chapter is its
\* verseCount, or 1 when its verseCount is 0.
C22_CountsAreVerseCountsOrOne ==
    /\ DOMAIN countsMap = DOMAIN booksMap
    /\ \A s \in DOMAIN booksMap :
          /\ DOMAIN countsMap[s] = {CountsKey(ch) : ch \in DOMAIN booksMap[s].chapters}
          /\ \A ch \in DOMAIN booksMap[s].chapters :
                LET vc == booksMap[s].chapters[ch].verseCount
                IN countsMap[s][CountsKey(ch)] = IF vc = 0 THEN 1 ELSE vc

\* The build is done with a book that has a chapter of two verses and a
\* chapter without verses.
C22_Witness ==
    /\ pc = "done"
    /\ \E s \in DOMAIN booksMap : \E c, d \in DOMAIN booksMap[s].chapters :
          /\ booksMap[s].chapters[c].verseCount = 2
          /\ countsMap[s][CountsKey(c)] = 2
          /\ booksMap[s].chapters[d].verseCount = 0
          /\ countsMap[s][CountsKey(d)] = 1

-----------------------------------------------------------------------------
(* Source resolution *)

\* A manifest: a non-empty array of strings.
ValidManifest(books) ==
    /\ IsArray(books)
    /\ Len(books.a) > 0
    /\ \A i \in 1..Len(books.a) : books.a[i].t = "str"

\* The candidates, both sub-paths of a base before the next base.
CandidateCount == Len(DATA_BASES) * Len(TRY_PATHS)
Candidate(k) ==
    [base |-> DATA_BASES[((k - 1) \div Len(TRY_PATHS)) + 1],
     sub |-> TRY_PATHS[((k - 1) % Len(TRY_PATHS)) + 1]]

\* findBaseAndBooksJson is over.
ResolverOver == resolver.pc \in {"returned", "threw"}

\* C17: when findBaseAndBooksJson is over and every candidate has failed,
\* the last one with a fetch error or with a body that is not a manifest, it
\* has thrown the error that carries the diagnostic of the last candidate,
\* no book is loaded, no page is written, and the process has exited with a
\* non-zero status.
C17_AllCandidatesFail ==
    (/\ ResolverOver
     /\ Len(resolver.tried) = CandidateCount
     /\ resolver.pc = "returned" => ~ValidManifest(resolver.books)) =>
        /\ resolver.pc = "threw"
        /\ resolver.text = "Could not load Books.json. "
        /\ resolver.done.url = Candidate(CandidateCount)
        /\ resolver.detail.url \in {NoUrl, Candidate(CandidateCount)}
        /\ pc = "failed"
        /\ indexList = <<>> /\ booksMap = EmptyMap /\ loaded = 0
        /\ pages = <<>> /\ out = <<>>

\* C19: the URLs fetched so far are the first candidates in the order base
\* outer, sub-path inner; what the resolver returns is a valid manifest, with
\* the base and sub-path of the last URL fetched, and no URL is fetched
\* after it.
C19_CandidateOrder ==
    /\ Len(resolver.tried) <= CandidateCount
    /\ \A k \in 1..Len(resolver.tried) : resolver.tried[k] = Candidate(k)
    /\ resolver.pc = "returned" =>
          /\ ValidManifest(resolver.books)
          /\ Len(resolver.tried) > 0
          /\ [base |-> resolver.base, sub |-> resolver.subdir]
                = resolver.tried[Len(resolver.tried)]

\* C20: a fetch makes at most 3 attempts and has waited 250 ms x k after its
\* failed attempt k; a fetch that has given up on its URL has made 3
\* attempts and waited 250 ms and 500 ms, whatever the failures were.
C20_RetryBound ==
    /\ resolver.pc = "fetch" =>
          /\ resolver.i < 3
          /\ resolver.waits = [k \in 1..resolver.i |-> 250 * k]
    /\ (resolver.pc \in {"fetch", "threw"} /\ resolver.done.rejected) =>
          /\ resolver.done.attempts = 3
          /\ resolver.done.waits = <<250, 500>>

\* C21: what the resolver returns is a non-empty array of strings; a fetch
\* that returned a body of another shape is a soft failure: the resolver has
\* recorded the diagnostic that names its URL and has gone on to the next
\* candidate, or has thrown after the last one with that diagnostic.
C21_ManifestAccepted ==
    /\ resolver.pc = "returned" => ValidManifest(resolver.books)
    /\ (resolver.pc = "fetch" /\ resolver.done # NoFetch /\ ~resolver.done.rejected) =>
          /\ resolver.lastErr = Message("Unexpected Books.json @ ", resolver.done.url)
          /\ pc = "resolve"
    /\ (resolver.pc = "threw" /\ ~resolver.done.rejected) =>
          resolver.detail = Message("Unexpected Books.json @ ", resolver.done.url)

\* No URL is in the sequence twice.
NoRepeat(seq) == \A i, j \in 1..Len(seq) : i # j => seq[i] # seq[j]

\* The bounds of C24 on the resolver: at most 4 x 2 x 3 = 24 calls of
\* fetch(), no URL fetched again once the resolver is past it, at most 3
\* attempts and 2 waits per URL.
ResolverBounded ==
    /\ resolver.fetches <= 24
    /\ NoRepeat(resolver.tried)
    /\ resolver.pc = "fetch" =>
          /\ resolver.i < 3
          /\ Len(resolver.waits) = resolver.i
          /\ Len(resolver.tried) \in {(resolver.bi - 1) * 2 + resolver.si - 1,
                                      (resolver.bi - 1) * 2 + resolver.si}
    /\ resolver.pc \in {"fetch", "threw"} =>
          /\ resolver.done.attempts <= 3
          /\ Len(resolver.done.waits) < 3
          /\ Len(resolver.done.waits) <= resolver.done.attempts

\* C24: whatever each fetch meets, findBaseAndBooksJson ends, with a returned
\* manifest or a thrown error, and all along it has made at most 24 calls of
\* fetch(), has fetched no URL again after going past it, and has not waited
\* after the third failed attempt of a URL.
C24_ResolutionTerminates == []ResolverBounded /\ <>ResolverOver

\* The resolver has thrown after 24 calls of fetch(), the last URL given up
\* after three attempts and two waits.
C24_Witness ==
    /\ resolver.pc = "threw"
    /\ resolver.fetches = 24
    /\ resolver.done.attempts = 3
    /\ resolver.done.waits = <<250, 500>>

-----------------------------------------------------------------------------
(* The preload loop *)

\* C18: the books loaded so far are those of the first rows of the manifest,
\* each one normalized; as long as a row is left to load, also when the
\* build has failed on it, no page, sitemap or robots file is written.
C18_NoBookSkipped ==
    /\ loaded <= Len(indexList)
    /\ DOMAIN booksMap = {indexList[i].slug : i \in 1..loaded}
    /\ \A s \in DOMAIN booksMap : booksMap[s].t = "book"
    /\ loaded < Len(indexList) =>
          /\ pc \in {"resolve", "load", "failed"}
          /\ pages = <<>>
          /\ out = <<>>
    /\ (pages # <<>> \/ out # <<>>) => loaded = Len(indexList)

\* The second of two books has failed to load after the first was loaded.
C18_Witness ==
    /\ pc = "failed"
    /\ Len(indexList) = 2
    /\ loaded = 1
    /\ out = <<>>
    /\ pages = <<>>

=============================================================================
